---------------------------- MODULE Spec2Model ----------------------------
(***************************************************************************)
(* Model of the openlibx402 Rust packages: the protocol model              *)
(* (openlibx402-core/src/models.rs), the Solana payment processor          *)
(* (openlibx402-core/src/payment_processor.rs), the explicit client        *)
(* (openlibx402-client/src/client.rs) and the auto-pay client              *)
(* (openlibx402-client/src/auto_client.rs).                                *)
(*                                                                         *)
(* One behaviour is one logical call of X402AutoClient::get / ::post on a  *)
(* client constructed with some AutoClientOptions.  The HTTP server, the   *)
(* clock and the ledger RPC are the environment: whatever they answer is   *)
(* drawn with \E from small sets.  Each action is the code that runs       *)
(* between two .await points of X402AutoClient::request.                   *)
(*                                                                         *)
(* Strings that the code parses (decimal amounts) are sequences of         *)
(* one-character strings, so that parsing is computed, not assumed.        *)
(***************************************************************************)
EXTENDS Integers, Sequences, FiniteSets, TLC

(***************************************************************************)
(* Bounds of the model.                                                    *)
(***************************************************************************)
\* options.max_retries ranges over 0..MaxRetriesBound
MaxRetriesBound == 2
\* the clock (Utc::now) ranges over 0..MaxClock
MaxClock == 1
\* the payments one behaviour of the processor lands on the ledger
MaxPayments == 2

(***************************************************************************)
(* Program constants.                                                      *)
(***************************************************************************)
\* StatusCode::PAYMENT_REQUIRED
PAYMENT_REQUIRED == 402
\* USDC uses 6 decimals: the scale of parse_amount (amount * 1_000_000.0)
USDC_DECIMALS == 6

(***************************************************************************)
(* Option<T>                                                               *)
(***************************************************************************)
None == [some |-> FALSE]
Some(x) == [some |-> TRUE, val |-> x]

(***************************************************************************)
(* X402Result<T> and X402Error (errors.rs): an error is its kind and its   *)
(* detail string.                                                          *)
(***************************************************************************)
Ok(x) == [ok |-> TRUE, val |-> x]
Err(kind, detail) == [ok |-> FALSE, err |-> [kind |-> kind, detail |-> detail]]

(***************************************************************************)
(* errors.rs: X402Error.  An error value is [kind, detail]; the text that  *)
(* code() returns is a sequence of characters.                             *)
(***************************************************************************)
X402ErrorKinds ==
    {"PaymentRequired", "PaymentExpired", "InsufficientFunds",
     "PaymentVerification", "TransactionBroadcast", "InvalidPaymentRequest",
     "InvalidPaymentAuthorization", "Configuration", "Network",
     "Blockchain", "Serialization"}

X402Error(kind, detail) == [kind |-> kind, detail |-> detail]

\* mutant: Blockchain reports the code of Network
Code_BlockchainAsNetwork(error) ==
    IF error.kind = "PaymentRequired" THEN <<"P", "A", "Y", "M", "E", "N", "T", "_", "R", "E", "Q", "U", "I", "R", "E", "D">>
    ELSE IF error.kind = "PaymentExpired" THEN <<"P", "A", "Y", "M", "E", "N", "T", "_", "E", "X", "P", "I", "R", "E", "D">>
    ELSE IF error.kind = "InsufficientFunds" THEN <<"I", "N", "S", "U", "F", "F", "I", "C", "I", "E", "N", "T", "_", "F", "U", "N", "D", "S">>
    ELSE IF error.kind = "PaymentVerification" THEN <<"P", "A", "Y", "M", "E", "N", "T", "_", "V", "E", "R", "I", "F", "I", "C", "A", "T", "I", "O", "N", "_", "F", "A", "I", "L", "E", "D">>
    ELSE IF error.kind = "TransactionBroadcast" THEN <<"T", "R", "A", "N", "S", "A", "C", "T", "I", "O", "N", "_", "B", "R", "O", "A", "D", "C", "A", "S", "T", "_", "F", "A", "I", "L", "E", "D">>
    ELSE IF error.kind = "InvalidPaymentRequest" THEN <<"I", "N", "V", "A", "L", "I", "D", "_", "P", "A", "Y", "M", "E", "N", "T", "_", "R", "E", "Q", "U", "E", "S", "T">>
    ELSE IF error.kind = "InvalidPaymentAuthorization" THEN <<"I", "N", "V", "A", "L", "I", "D", "_", "P", "A", "Y", "M", "E", "N", "T", "_", "A", "U", "T", "H", "O", "R", "I", "Z", "A", "T", "I", "O", "N">>
    ELSE IF error.kind = "Configuration" THEN <<"C", "O", "N", "F", "I", "G", "U", "R", "A", "T", "I", "O", "N", "_", "E", "R", "R", "O", "R">>
    ELSE IF error.kind = "Network" THEN <<"N", "E", "T", "W", "O", "R", "K", "_", "E", "R", "R", "O", "R">>
    ELSE IF error.kind = "Blockchain" THEN <<"N", "E", "T", "W", "O", "R", "K", "_", "E", "R", "R", "O", "R">>
    ELSE IF error.kind = "Serialization" THEN <<"S", "E", "R", "I", "A", "L", "I", "Z", "A", "T", "I", "O", "N", "_", "E", "R", "R", "O", "R">>
    ELSE <<>>

\* X402Error::code
Code(error) ==
    IF error.kind = "PaymentRequired" THEN <<"P", "A", "Y", "M", "E", "N", "T", "_", "R", "E", "Q", "U", "I", "R", "E", "D">>
    ELSE IF error.kind = "PaymentExpired" THEN <<"P", "A", "Y", "M", "E", "N", "T", "_", "E", "X", "P", "I", "R", "E", "D">>
    ELSE IF error.kind = "InsufficientFunds" THEN <<"I", "N", "S", "U", "F", "F", "I", "C", "I", "E", "N", "T", "_", "F", "U", "N", "D", "S">>
    ELSE IF error.kind = "PaymentVerification" THEN <<"P", "A", "Y", "M", "E", "N", "T", "_", "V", "E", "R", "I", "F", "I", "C", "A", "T", "I", "O", "N", "_", "F", "A", "I", "L", "E", "D">>
    ELSE IF error.kind = "TransactionBroadcast" THEN <<"T", "R", "A", "N", "S", "A", "C", "T", "I", "O", "N", "_", "B", "R", "O", "A", "D", "C", "A", "S", "T", "_", "F", "A", "I", "L", "E", "D">>
    ELSE IF error.kind = "InvalidPaymentRequest" THEN <<"I", "N", "V", "A", "L", "I", "D", "_", "P", "A", "Y", "M", "E", "N", "T", "_", "R", "E", "Q", "U", "E", "S", "T">>
    ELSE IF error.kind = "InvalidPaymentAuthorization" THEN <<"I", "N", "V", "A", "L", "I", "D", "_", "P", "A", "Y", "M", "E", "N", "T", "_", "A", "U", "T", "H", "O", "R", "I", "Z", "A", "T", "I", "O", "N">>
    ELSE IF error.kind = "Configuration" THEN <<"C", "O", "N", "F", "I", "G", "U", "R", "A", "T", "I", "O", "N", "_", "E", "R", "R", "O", "R">>
    ELSE IF error.kind = "Network" THEN <<"N", "E", "T", "W", "O", "R", "K", "_", "E", "R", "R", "O", "R">>
    ELSE IF error.kind = "Blockchain" THEN <<"B", "L", "O", "C", "K", "C", "H", "A", "I", "N", "_", "E", "R", "R", "O", "R">>
    ELSE IF error.kind = "Serialization" THEN <<"S", "E", "R", "I", "A", "L", "I", "Z", "A", "T", "I", "O", "N", "_", "E", "R", "R", "O", "R">>
    ELSE <<>>

\* serde's form of the enum, #[serde(tag = "type", content = "details")],
\* and its parsing
ErrorToJson(error) ==
    [wellformed |-> TRUE, obj |-> [type |-> error.kind, details |-> error.detail]]

ErrorFromJson(text) ==
    IF ~text.wellformed THEN Err("serde_json", "expected value")
    ELSE IF ~({"type", "details"} \subseteq DOMAIN text.obj)
    THEN Err("serde_json", "missing field")
    ELSE IF text.obj.type \notin X402ErrorKinds
    THEN Err("serde_json", "unknown variant")
    ELSE Ok(X402Error(text.obj.type, text.obj.details))

(***************************************************************************)
(* f64 parsing of a decimal string (str::parse::<f64>), on strings given   *)
(* as sequences of characters.  Accepted here: an optional sign, then      *)
(* "NaN", "inf", or digits with at most one '.', at least one digit.       *)
(* A finite value is held as an integer number of 10^-FracDigits units,    *)
(* two decimal digits below the minor unit: the strings of the model have  *)
(* at most FracDigits fractional digits, and on them f64 parsing keeps the *)
(* order of the decimal values.                                            *)
(***************************************************************************)
FracDigits == USDC_DECIMALS + 2
DigitChars == <<"0", "1", "2", "3", "4", "5", "6", "7", "8", "9">>
IsDigit(c) == \E i \in 1..10 : DigitChars[i] = c
DigitVal(c) == (CHOOSE i \in 1..10 : DigitChars[i] = c) - 1

RECURSIVE Pow10(_)
Pow10(n) == IF n = 0 THEN 1 ELSE 10 * Pow10(n - 1)

RECURSIVE DigitsPrefixValue(_, _)
\* value of the first n characters of a sequence of digits, read as a
\* decimal integer
DigitsPrefixValue(ds, n) ==
    IF n = 0 THEN 0 ELSE 10 * DigitsPrefixValue(ds, n - 1) + DigitVal(ds[n])

DigitsValue(ds) == DigitsPrefixValue(ds, Len(ds))

\* the fractional digits, as a number of 10^-FracDigits units (digits
\* beyond that are below the resolution of the model and are dropped)
FractionUnits(ds) ==
    LET kept == SubSeq(ds, 1, IF Len(ds) < FracDigits THEN Len(ds) ELSE FracDigits)
    IN  DigitsValue(kept) * Pow10(FracDigits - Len(kept))

F64Finite(units) == [kind |-> "finite", units |-> units]
F64NaN == [kind |-> "nan", units |-> 0]
F64Inf(neg) == [kind |-> IF neg THEN "-inf" ELSE "inf", units |-> 0]

ParseDecimal(s) ==
    LET signed == Len(s) > 0 /\ s[1] \in {"-", "+"}
        neg    == Len(s) > 0 /\ s[1] = "-"
        body   == IF signed THEN Tail(s) ELSE s
        dots   == {i \in 1..Len(body) : body[i] = "."}
        dot    == IF dots = {} THEN Len(body) + 1 ELSE CHOOSE i \in dots : TRUE
        ip     == SubSeq(body, 1, dot - 1)
        fp     == SubSeq(body, dot + 1, Len(body))
        digitsOnly == \A i \in 1..Len(body) : i = dot \/ IsDigit(body[i])
        mag    == DigitsValue(ip) * Pow10(FracDigits) + FractionUnits(fp)
    IN  IF body = <<"N", "a", "N">> THEN Ok(F64NaN)
        ELSE IF body = <<"i", "n", "f">> THEN Ok(F64Inf(neg))
        ELSE IF Cardinality(dots) <= 1 /\ digitsOnly /\ Len(ip) + Len(fp) > 0
             THEN Ok(F64Finite(IF neg THEN 0 - mag ELSE mag))
        ELSE Err("ParseFloatError", "invalid float literal")

\* str::parse::<f64>; the string is evaluated once, then parsed
ParseF64(str) == CHOOSE parsed \in {ParseDecimal(s) : s \in {str}} : TRUE

\* a > b on f64 values: false whenever either is NaN
F64Greater(a, b) ==
    /\ a.kind # "nan" /\ b.kind # "nan"
    /\ \/ a.kind = "inf" /\ b.kind # "inf"
       \/ a.kind = "finite" /\ b.kind = "-inf"
       \/ a.kind = "finite" /\ b.kind = "finite" /\ a.units > b.units

(***************************************************************************)
(* Amount strings offered by the environment and by the configuration.     *)
(***************************************************************************)
Amt025 == <<"0", ".", "2", "5">>
Amt05  == <<"0", ".", "5">>
Amt100 == <<"1", ".", "0", "0">>
Amt001 == <<"0", ".", "0", "1">>
Amt010 == <<"0", ".", "1", "0">>
Amt0001 == <<"0", ".", "0", "0", "1">>
AmtBad == <<"a", "b", "c">>
Amt03 == <<"0", ".", "3">>
\* an amount that is no whole number of minor units
AmtSubMinor == <<"0", ".", "0", "0", "0", "0", "0", "1", "9">>
Amt0000248 == <<"0", ".", "0", "0", "0", "2", "4", "8">>
Amt0000249 == <<"0", ".", "0", "0", "0", "2", "4", "9">>
AmtNegative == <<"-", "0", ".", "2", "5">>
Amt10 == <<"1", ".", "0">>
Amt0000001 == <<"0", ".", "0", "0", "0", "0", "0", "1">>
\* a string f64 parsing accepts that names no number
AmtNaN == <<"N", "a", "N">>

(***************************************************************************)
(* models.rs: PaymentRequest (the demand) and its JSON form.  A JSON       *)
(* object is a record whose domain is the set of keys present; timestamps  *)
(* are integers of the model clock.                                        *)
(***************************************************************************)
PaymentRequestNew(max_amount_required, asset_address, payment_address, network, expires_at, nonce, payment_id, resource) ==
    [max_amount_required |-> max_amount_required,
     asset_type          |-> "SPL",
     asset_address       |-> asset_address,
     payment_address     |-> payment_address,
     network             |-> network,
     expires_at          |-> expires_at,
     nonce               |-> nonce,
     payment_id          |-> payment_id,
     resource            |-> resource,
     description         |-> None]

WithDescription(request, description) ==
    [request EXCEPT !.description = Some(description)]

\* mutant: no demand is ever expired
IsExpired_Never(request, now) == FALSE

\* mutant: a demand is expired from the instant expires_at on
IsExpired_AtOrAfter(request, now) == now >= request.expires_at

\* PaymentRequest::is_expired: Utc::now() > self.expires_at
IsExpired(request, now) == now > request.expires_at

\* chrono's serde form of DateTime<Utc>: the RFC 3339 text of the instant,
\* and its parsing
ToRfc3339(instant) == [rfc3339 |-> TRUE, instant |-> instant]
FromRfc3339(text) ==
    IF text.rfc3339 THEN Ok(text.instant)
    ELSE Err("chrono", "input contains invalid characters")

RequestJsonKeys ==
    {"max_amount_required", "asset_type", "asset_address", "payment_address",
     "network", "expires_at", "nonce", "payment_id", "resource"}

\* serde_json::to_string(self): description is skipped when None
PaymentRequestToJson(request) ==
    LET keys == RequestJsonKeys \cup
                (IF request.description.some THEN {"description"} ELSE {})
    IN  [wellformed |-> TRUE,
         obj |-> [k \in keys |-> IF k = "description" THEN request.description.val
                                 ELSE IF k = "expires_at" THEN ToRfc3339(request.expires_at)
                                 ELSE request[k]]]

\* PaymentRequest::from_json on a body: text that is no JSON, or a JSON
\* object that lacks a required key, is InvalidPaymentRequest
PaymentRequestFromJson(text) ==
    IF ~text.wellformed
    THEN Err("InvalidPaymentRequest", "Failed to parse payment request: expected value")
    ELSE IF ~(RequestJsonKeys \subseteq DOMAIN text.obj)
    THEN Err("InvalidPaymentRequest", "Failed to parse payment request: missing field")
    ELSE IF ~FromRfc3339(text.obj.expires_at).ok
    THEN Err("InvalidPaymentRequest", "Failed to parse payment request: invalid date")
    ELSE Ok([k \in RequestJsonKeys \cup {"description"} |->
                IF k = "description"
                THEN (IF "description" \in DOMAIN text.obj
                      THEN Some(text.obj.description) ELSE None)
                ELSE IF k = "expires_at" THEN FromRfc3339(text.obj.expires_at).val
                ELSE text.obj[k]])

(***************************************************************************)
(* models.rs: PaymentAuthorization (the proof), its JSON form and its      *)
(* header encoding.  Base64 text is the tagged wrapping of the text it     *)
(* encodes.                                                                *)
(***************************************************************************)
\* mutant: the first two arguments are stored in each other's field
PaymentAuthorizationNew_MixedUp(payment_id, actual_amount, payment_address, asset_address, network, signature, public_key, now) ==
    [payment_id       |-> payment_address,
     actual_amount    |-> actual_amount,
     payment_address  |-> payment_id,
     asset_address    |-> asset_address,
     network          |-> network,
     timestamp        |-> now,
     signature        |-> signature,
     public_key       |-> public_key,
     transaction_hash |-> Some(signature)]

PaymentAuthorizationNew(payment_id, actual_amount, payment_address, asset_address, network, signature, public_key, now) ==
    [payment_id       |-> payment_id,
     actual_amount    |-> actual_amount,
     payment_address  |-> payment_address,
     asset_address    |-> asset_address,
     network          |-> network,
     timestamp        |-> now,
     signature        |-> signature,
     public_key       |-> public_key,
     transaction_hash |-> Some(signature)]

AuthorizationJsonKeys ==
    {"payment_id", "actual_amount", "payment_address", "asset_address",
     "network", "timestamp", "signature", "public_key"}

PaymentAuthorizationToJson(auth) ==
    LET keys == AuthorizationJsonKeys \cup
                (IF auth.transaction_hash.some THEN {"transaction_hash"} ELSE {})
    IN  [wellformed |-> TRUE,
         obj |-> [k \in keys |-> IF k = "transaction_hash" THEN auth.transaction_hash.val
                                 ELSE IF k = "timestamp" THEN ToRfc3339(auth.timestamp)
                                 ELSE auth[k]]]

Base64Encode(text) == [b64 |-> TRUE, of |-> text]
\* general_purpose::STANDARD.decode; a DecodeError becomes Serialization
\* (errors.rs, From<base64::DecodeError>)
Base64Decode(encoded) ==
    IF encoded.b64 THEN Ok(encoded.of)
    ELSE Err("Serialization", "Base64 decode error")

\* bytes that are no UTF-8 text, and String::from_utf8
InvalidUtf8Bytes == [utf8 |-> FALSE]
FromUtf8(bytes) ==
    IF bytes = InvalidUtf8Bytes THEN Err("FromUtf8Error", "invalid utf-8 sequence")
    ELSE Ok(bytes)

\* PaymentRequest::to_base64
PaymentRequestToBase64(request) == Base64Encode(PaymentRequestToJson(request))

\* mutant: the description is not read back
PaymentRequestFromBase64_NoDescription(encoded) ==
    LET decoded == Base64Decode(encoded)
        json    == FromUtf8(decoded.val)
        parsed  == PaymentRequestFromJson(json.val)
    IN  IF ~decoded.ok THEN decoded
        ELSE IF ~json.ok THEN json
        ELSE IF ~parsed.ok THEN parsed
        ELSE Ok([parsed.val EXCEPT !.description = None])

\* PaymentRequest::from_base64
PaymentRequestFromBase64(encoded) ==
    LET decoded == Base64Decode(encoded)
        json    == FromUtf8(decoded.val)
    IN  IF ~decoded.ok THEN decoded
        ELSE IF ~json.ok
        THEN Err("InvalidPaymentRequest", "Invalid UTF-8 in base64 data")
        ELSE PaymentRequestFromJson(json.val)

\* PaymentAuthorization::to_header_value
ToHeaderValue(auth) == Base64Encode(PaymentAuthorizationToJson(auth))

\* mutant: a proof read back always has its signature as transaction_hash
PaymentAuthorizationFromJson_HashFromSignature(text) ==
    IF ~text.wellformed \/ ~(AuthorizationJsonKeys \subseteq DOMAIN text.obj)
    THEN Err("InvalidPaymentAuthorization", "Failed to parse payment authorization")
    ELSE Ok([k \in AuthorizationJsonKeys \cup {"transaction_hash"} |->
                IF k = "transaction_hash" THEN Some(text.obj.signature)
                ELSE IF k = "timestamp" THEN FromRfc3339(text.obj.timestamp).val
                ELSE text.obj[k]])

\* PaymentAuthorization::from_json: text that is no JSON, or a JSON object
\* that lacks a required key, is InvalidPaymentAuthorization
PaymentAuthorizationFromJson(text) ==
    IF ~text.wellformed
    THEN Err("InvalidPaymentAuthorization", "Failed to parse payment authorization: expected value")
    ELSE IF ~(AuthorizationJsonKeys \subseteq DOMAIN text.obj)
    THEN Err("InvalidPaymentAuthorization", "Failed to parse payment authorization: missing field")
    ELSE IF ~FromRfc3339(text.obj.timestamp).ok
    THEN Err("InvalidPaymentAuthorization", "Failed to parse payment authorization: invalid date")
    ELSE Ok([k \in AuthorizationJsonKeys \cup {"transaction_hash"} |->
                IF k = "transaction_hash"
                THEN (IF "transaction_hash" \in DOMAIN text.obj
                      THEN Some(text.obj.transaction_hash) ELSE None)
                ELSE IF k = "timestamp" THEN FromRfc3339(text.obj.timestamp).val
                ELSE text.obj[k]])

\* PaymentAuthorization::from_header_value
FromHeaderValue(encoded) ==
    LET decoded == Base64Decode(encoded)
        json    == FromUtf8(decoded.val)
    IN  IF ~decoded.ok THEN decoded
        ELSE IF ~json.ok
        THEN Err("InvalidPaymentAuthorization", "Invalid UTF-8 in header")
        ELSE PaymentAuthorizationFromJson(json.val)

(***************************************************************************)
(* payment_processor.rs: SolanaPaymentProcessor.                           *)
(***************************************************************************)
\* Pubkey::from_str succeeds on the well-formed addresses of the model
ValidPubkeys == {"USDC-mint", "recipient-wallet", "payer-wallet"}
IsPubkey(s) == s \in ValidPubkeys

\* The numbers of minor units n, among the amounts of the model, for which
\* the f64 product (n / 10^6) * 1_000_000.0 is below n in IEEE-754 binary64
\* (0.000249 * 1000000.0 = 248.99999999999997,
\*  1.001 * 1000000.0 = 1000999.9999999999)
F64ProductBelow == {249, 1001000}

\* (amount * 1_000_000.0) as u64: the cast truncates toward zero, and
\* saturates to 0 on a negative value, on -inf and on NaN (the amounts of
\* the model are finite: +inf, which the cast takes to u64::MAX, is not
\* among them)
F64ToU64(x) ==
    LET perMinor == Pow10(FracDigits - USDC_DECIMALS)
        whole    == x.units \div perMinor
        exact    == x.units % perMinor = 0
    IN  IF x.kind \in {"nan", "-inf"} \/ x.units < 0 THEN 0
        ELSE IF exact /\ whole \in F64ProductBelow THEN whole - 1
        ELSE whole

\* SolanaPaymentProcessor::parse_amount
ParseAmount(amount_str) ==
    LET amount == ParseF64(amount_str)
    IN  IF ~amount.ok
        THEN Err("InvalidPaymentRequest", "Invalid amount format")
        ELSE Ok(F64ToU64(amount.val))

\* SolanaPaymentProcessor::get_token_balance on the RPC's answer: the
\* balance comes as a string, parsed as u64
GetTokenBalance(rpc_balance) ==
    IF ~rpc_balance.ok
    THEN Err("Network", "Failed to get token balance")
    ELSE IF rpc_balance.val = <<>> \/ \E i \in 1..Len(rpc_balance.val) : ~IsDigit(rpc_balance.val[i])
    THEN Err("Blockchain", "Failed to parse balance")
    ELSE Ok(DigitsValue(rpc_balance.val))

\* mutant: a balance equal to the amount is refused
CheckBalance_EqualRefused(rpc_balance, required_amount) ==
    LET balance == GetTokenBalance(rpc_balance)
    IN  IF ~balance.ok THEN balance
        ELSE IF balance.val <= required_amount
        THEN Err("InsufficientFunds", "Insufficient balance")
        ELSE Ok("unit")

\* SolanaPaymentProcessor::check_balance
CheckBalance(rpc_balance, required_amount) ==
    LET balance == GetTokenBalance(rpc_balance)
    IN  IF ~balance.ok THEN balance
        ELSE IF balance.val < required_amount
        THEN Err("InsufficientFunds", "Insufficient balance")
        ELSE Ok("unit")

\* SolanaPaymentProcessor::account_exists on the RPC's answer to get_account
AccountExists(rpc_account) ==
    IF rpc_account = "found" THEN Ok(TRUE)
    ELSE IF rpc_account = "AccountNotFound" THEN Ok(FALSE)
    ELSE Err("Network", "Failed to check account existence")

\* mutant: the account creation is pushed after the transfer
BuildInstructions_TransferFirst(recipient_exists, payer, recipient, amount) ==
    <<[op |-> "transfer_checked", from |-> payer, to |-> recipient,
       amount |-> amount, decimals |-> USDC_DECIMALS]>>
    \o (IF ~recipient_exists
        THEN <<[op |-> "create_associated_token_account", funder |-> payer, owner |-> recipient]>>
        ELSE <<>>)

\* the instructions of the transaction built by create_payment
BuildInstructions(recipient_exists, payer, recipient, amount) ==
    (IF ~recipient_exists
     THEN <<[op |-> "create_associated_token_account", funder |-> payer, owner |-> recipient]>>
     ELSE <<>>)
    \o <<[op |-> "transfer_checked", from |-> payer, to |-> recipient,
          amount |-> amount, decimals |-> USDC_DECIMALS]>>

\* What the RPC may answer to one create_payment: the payer's token balance,
\* the recipient's token account, the latest blockhash, and the fate of the
\* submitted transaction ("confirmed": landed and confirmed; "rejected": not
\* landed; "unconfirmed": landed, but its confirmation was not seen).
RpcAnswerFields ==
    [balance   : {Err("rpc", "unreachable"), Ok(<<"3", "0", "0", "0", "0", "0">>),
                  Ok(<<"5", "0", "0", "0", "0", "0", "0">>), Ok(<<"?">>)},
     account   : {"found", "AccountNotFound", "unreachable"},
     blockhash : BOOLEAN,
     send      : {"confirmed", "rejected", "unconfirmed"}]

\* create_payment asks the RPC in this order and stops at the first failure:
\* an answer to a question that is not asked is not drawn (it is held at a
\* fixed value)
RpcAnswers ==
    {r \in RpcAnswerFields :
        LET accountAsked   == r.balance.ok /\ r.balance.val # <<"?">>
            blockhashAsked == accountAsked /\ r.account # "unreachable"
            sendAsked      == blockhashAsked /\ r.blockhash
        IN  /\ ~accountAsked => r.account = "found"
            /\ ~blockhashAsked => r.blockhash
            /\ ~sendAsked => r.send = "confirmed"}

\* Signature::to_string and Signature::from_str: the text form of a
\* transaction identifier is its base58 encoding; text that is no base58
\* encoding of 64 bytes has no identifier
SignatureToString(signature) == [base58 |-> TRUE, bytes |-> signature]
SignatureFromStr(text) ==
    IF text.base58 THEN Ok(text.bytes)
    ELSE Err("InvalidPaymentAuthorization", "Invalid signature")

\* mutant: a transaction whose confirmation was not seen counts as sent
SendAndConfirmOk_Unconfirmed(send) == send # "rejected"

\* send_and_confirm_transaction(&transaction) is Ok
SendAndConfirmOk(send) == send = "confirmed"

\* the RPC methods create_payment calls, in the order it calls them
CreatePaymentRpcOrder ==
    <<"get_token_account_balance", "get_account", "get_latest_blockhash",
      "send_and_confirm_transaction">>
RpcCallsUpTo(n) == SubSeq(CreatePaymentRpcOrder, 1, n)

\* SolanaPaymentProcessor::create_payment.  `now` is Utc::now(), `rpc` the
\* answers of the RPC, `signature` the identifier the ledger gives to the
\* transaction.  The result is the X402Result, the transaction that landed
\* on the ledger, if one did, and the RPC calls made.
CreatePayment(request, payer, now, rpc, signature) ==
    LET amount  == ParseAmount(request.max_amount_required)
        balance == CheckBalance(rpc.balance, amount.val)
        exists  == AccountExists(rpc.account)
        tx      == [signature    |-> signature,
                    instructions |-> BuildInstructions(exists.val, payer,
                                        request.payment_address, amount.val),
                    meta         |-> Some([err |-> None])]
        fail(e, n) == [result |-> e, landed |-> None, rpc_calls |-> RpcCallsUpTo(n)]
    IN  IF IsExpired(request, now)
        THEN fail(Err("PaymentExpired", "Payment request expired"), 0)
        ELSE IF ~IsPubkey(request.asset_address)
        THEN fail(Err("InvalidPaymentRequest", "Invalid token mint address"), 0)
        ELSE IF ~IsPubkey(request.payment_address)
        THEN fail(Err("InvalidPaymentRequest", "Invalid payment address"), 0)
        ELSE IF ~amount.ok THEN fail(amount, 0)
        ELSE IF ~balance.ok THEN fail(balance, 1)
        ELSE IF ~exists.ok THEN fail(exists, 2)
        ELSE IF ~rpc.blockhash
        THEN fail(Err("Network", "Failed to get recent blockhash"), 3)
        ELSE IF ~SendAndConfirmOk(rpc.send)
        THEN [result |-> Err("TransactionBroadcast", "Failed to broadcast transaction"),
              landed |-> IF rpc.send = "unconfirmed" THEN Some(tx) ELSE None,
              rpc_calls |-> RpcCallsUpTo(4)]
        ELSE [result |-> Ok(PaymentAuthorizationNew(request.payment_id,
                              request.max_amount_required, request.payment_address,
                              request.asset_address, request.network,
                              SignatureToString(signature), payer, now)),
              landed |-> Some(tx),
              rpc_calls |-> RpcCallsUpTo(4)]

\* RpcClient::get_transaction: the transaction of the ledger with this
\* identifier, when the RPC answers and the ledger has one
GetTransaction(ledger_, signature, reachable) ==
    LET found == {k \in 1..Len(ledger_) : ledger_[k].signature = signature}
    IN  IF ~reachable THEN Err("rpc", "unreachable")
        ELSE IF found = {} THEN Err("rpc", "transaction not found")
        ELSE Ok(ledger_[CHOOSE k \in found : TRUE])

\* mutant: the transaction's error is not looked at
FailedOnChain_Never(transaction) == FALSE

\* transaction.transaction.meta.as_ref().and_then(|m| m.err.as_ref()).is_some()
FailedOnChain(transaction) == transaction.meta.some /\ transaction.meta.val.err.some

\* "if actual < expected" (line 180), on minor units
BelowExpected(actual, expected) == actual < expected

\* SolanaPaymentProcessor::verify_payment.  `ledger_` is the ledger the RPC
\* reads, `reachable` whether the RPC answers.  The result is the X402Result
\* and the RPC calls made.
VerifyPayment(authorization_, expected_amount, ledger_, reachable) ==
    LET signature   == SignatureFromStr(authorization_.signature)
        transaction == GetTransaction(ledger_, signature.val, reachable)
        expected    == ParseAmount(expected_amount)
        actual      == ParseAmount(authorization_.actual_amount)
        looked(r)   == [result |-> r, rpc_calls |-> <<"get_transaction">>]
    IN  IF ~signature.ok THEN [result |-> signature, rpc_calls |-> <<>>]
        ELSE IF ~transaction.ok
        THEN looked(Err("PaymentVerification", "Failed to fetch transaction"))
        ELSE IF FailedOnChain(transaction.val)
        THEN looked(Err("PaymentVerification", "Transaction failed on-chain"))
        ELSE IF ~expected.ok THEN looked(expected)
        ELSE IF ~actual.ok THEN looked(actual)
        ELSE IF BelowExpected(actual.val, expected.val)
        THEN looked(Err("PaymentVerification", "Payment amount is less than required"))
        ELSE looked(Ok(TRUE))

(***************************************************************************)
(* client.rs: X402Client.                                                  *)
(***************************************************************************)
\* the HTTP request built by X402Client::request (lines 69-90)
BuildRequest(method, body, authorization) ==
    [method       |-> method,
     body         |-> IF method = "POST" THEN body ELSE None,
     content_type |-> method = "POST" /\ body.some,
     payment_authorization |->
         IF authorization.some THEN Some(ToHeaderValue(authorization.val)) ELSE None]

\* X402Client::is_payment_required
IsPaymentRequired(response) == response.status = PAYMENT_REQUIRED

\* mutant: the body is parsed whatever the status
ParsePaymentRequest_AnyStatus(response) ==
    IF ~response.body.readable
    THEN Err("Network", "Failed to read response body")
    ELSE PaymentRequestFromJson(response.body.text)

\* X402Client::parse_payment_request
ParsePaymentRequest(response) ==
    IF ~IsPaymentRequired(response)
    THEN Err("InvalidPaymentRequest", "Response status is not 402")
    ELSE IF ~response.body.readable
    THEN Err("Network", "Failed to read response body")
    ELSE PaymentRequestFromJson(response.body.text)

(***************************************************************************)
(* auto_client.rs: AutoClientOptions and the pure parts of                 *)
(* X402AutoClient::request.                                                *)
(***************************************************************************)
\* mutant: the limit is compared with > instead of >=
RetryLimitReached_OffByOne(retries_, max_retries) == retries_ > max_retries

\* "if retries >= self.options.max_retries" (line 87)
RetryLimitReached(retries_, max_retries) == retries_ >= max_retries

\* mutant: a demand equal to the ceiling is refused too
ExceedsMaximum_OrEqual(required_amount, max_amount) ==
    F64Greater(required_amount, max_amount) \/ required_amount = max_amount

\* mutant: the operands of the comparison are swapped
ExceedsMaximum_Swapped(required_amount, max_amount) == F64Greater(max_amount, required_amount)

\* "if required_amount > max_amount" (line 143)
ExceedsMaximum(required_amount, max_amount) == F64Greater(required_amount, max_amount)

\* mutant: the amounts are parsed but never compared
CheckPaymentAmount_Uncompared(opts, request) ==
    IF ~ParseF64(opts.max_payment_amount).ok
    THEN Err("Configuration", "Invalid max_payment_amount")
    ELSE IF ~ParseF64(request.max_amount_required).ok
    THEN Err("InvalidPaymentRequest", "Invalid payment amount")
    ELSE Ok("unit")

\* the error of lines 144-149: its message is formatted from the two parsed
\* values, "Payment amount {} exceeds maximum allowed amount {}"
ExceedsMaximumError(required_amount, max_amount) ==
    [ok  |-> FALSE,
     err |-> [kind |-> "PaymentRequired",
              detail |-> "Payment amount exceeds maximum allowed amount",
              required_amount |-> required_amount,
              max_amount |-> max_amount]]

\* X402AutoClient::check_payment_amount
CheckPaymentAmount(opts, request) ==
    LET max_amount      == ParseF64(opts.max_payment_amount)
        required_amount == ParseF64(request.max_amount_required)
    IN  IF ~max_amount.ok
        THEN Err("Configuration", "Invalid max_payment_amount")
        ELSE IF ~required_amount.ok
        THEN Err("InvalidPaymentRequest", "Invalid payment amount")
        ELSE IF ExceedsMaximum(required_amount.val, max_amount.val)
        THEN ExceedsMaximumError(required_amount.val, max_amount.val)
        ELSE Ok("unit")

\* StatusCode::is_success
IsSuccess(status) == status \in 200..299

\* mutant: a 402 answer to the retry is returned like any other status
AfterRetry_Returns402(retry_response) == "return"

\* mutant: only a success is returned; every other status re-enters the loop
AfterRetry_ContinuesOnError(retry_response) ==
    IF retry_response.status \in 200..299 THEN "return" ELSE "continue"

\* what the loop does with the answer to the proof-bearing request
\* (lines 114-125)
AfterRetry(retry_response) ==
    IF IsSuccess(retry_response.status) THEN "return"
    ELSE IF retry_response.status = PAYMENT_REQUIRED THEN "continue"
    ELSE "return"

MaxRetriesReached == Err("PaymentRequired", "Maximum retry attempts reached")

(***************************************************************************)
(* The environment: what the resource server may answer.                   *)
(***************************************************************************)
Payer == "payer-wallet"

ServerDemands ==
    {PaymentRequestNew(Amt025, "USDC-mint", "recipient-wallet", "solana-devnet",
                       MaxClock, "nonce-1", "pay-1", "/basic"),
     WithDescription(
       PaymentRequestNew(Amt05, "USDC-mint", "recipient-wallet", "solana-devnet",
                         MaxClock, "nonce-2", "pay-2", "/basic"), "Basic tier"),
     PaymentRequestNew(Amt100, "USDC-mint", "recipient-wallet", "solana-devnet",
                       MaxClock, "nonce-3", "pay-3", "/premium"),
     PaymentRequestNew(AmtBad, "USDC-mint", "recipient-wallet", "solana-devnet",
                       MaxClock, "nonce-4", "pay-4", "/basic"),
     PaymentRequestNew(Amt025, "USDC-mint", "recipient-wallet", "solana-devnet",
                       0, "nonce-5", "pay-5", "/basic"),
     PaymentRequestNew(Amt05, "not-base58!", "recipient-wallet", "solana-devnet",
                       MaxClock, "nonce-6", "pay-6", "/basic")}

ReadableBody(text) == [readable |-> TRUE, text |-> text]
UnreadableBody == [readable |-> FALSE]
\* a JSON object that is no demand (the extractor's own 402 body has this shape)
EnvelopeText ==
    [wellformed |-> TRUE,
     obj |-> [error |-> "Payment required", message |-> "This endpoint requires payment"]]
GarbageText == [wellformed |-> FALSE]

Bodies402 ==
    {ReadableBody(PaymentRequestToJson(d)) : d \in ServerDemands}
    \cup {ReadableBody(EnvelopeText), ReadableBody(GarbageText), UnreadableBody}

Responses ==
    {[status |-> PAYMENT_REQUIRED, body |-> b] : b \in Bodies402}
    \cup {[status |-> st, body |-> ReadableBody(GarbageText)] : st \in {200, 500}}

\* the outcome of reqwest's send: a transport failure, or a response
SendOutcomes ==
    {Err("Network", "HTTP request failed")} \cup {Ok(r) : r \in Responses}

\* the answers to a request that carries a proof: the same statuses; a 402
\* carries a demand again, here one of two (a cheap and a dear one)
RetryDemandIds == {"pay-1", "pay-3"}
RetryOutcomes ==
    {Err("Network", "HTTP request failed")}
    \cup {Ok(r) : r \in {x \in Responses : x.status # PAYMENT_REQUIRED}}
    \cup {Ok([status |-> PAYMENT_REQUIRED, body |-> ReadableBody(PaymentRequestToJson(d))]) :
             d \in {x \in ServerDemands : x.payment_id \in RetryDemandIds}}

(***************************************************************************)
(* The configurations a client may be constructed with.                    *)
(***************************************************************************)
OptionsSet ==
    [max_payment_amount : {Amt05, AmtBad},
     auto_retry         : BOOLEAN,
     max_retries        : 0..MaxRetriesBound]

(***************************************************************************)
(* openlibx402-actix/src/lib.rs and openlibx402-rocket/src/lib.rs: the     *)
(* configuration, the price of an endpoint, and the demand built for it.   *)
(* The two files define X402Config, PaymentRequirement and                 *)
(* create_payment_request alike.                                           *)
(***************************************************************************)
X402Config(payment_address, token_mint, network, rpc_url, auto_verify) ==
    [payment_address |-> payment_address,
     token_mint      |-> token_mint,
     network         |-> network,
     rpc_url         |-> rpc_url,
     auto_verify     |-> auto_verify]

DEFAULT_EXPIRES_IN == 300

\* PaymentRequirement::new, ::with_description, ::with_expires_in
PaymentRequirementNew(amount) ==
    [amount |-> amount, description |-> None, expires_in |-> DEFAULT_EXPIRES_IN]
RequirementWithDescription(requirement, description) ==
    [requirement EXCEPT !.description = Some(description)]
WithExpiresIn(requirement, seconds) ==
    [requirement EXCEPT !.expires_in = seconds]

\* Uuid::new_v4().to_string(): a random identifier.  The generator is taken
\* to yield, each time, an identifier it has not yielded before: of those
\* not yet used, the first.
Uuid(n) == [uuid |-> n]
\* mutant: the identifier is generated once and reused
NewV4_Once(used) == Uuid(1)

NewV4(used) == Uuid(CHOOSE n \in 1..(Cardinality(used) + 1) :
                       /\ Uuid(n) \notin used
                       /\ \A k \in 1..(n - 1) : Uuid(k) \in used)

\* mutant: the demand is issued for the configured wallet as its asset
CreatePaymentRequest_AssetIsWallet(config, requirement, resource, now, used) ==
    LET payment_id == NewV4(used)
        nonce      == NewV4(used \cup {payment_id})
        request    == PaymentRequestNew(requirement.amount, config.payment_address,
                                        config.payment_address, config.network,
                                        now + requirement.expires_in, nonce, payment_id, resource)
    IN  IF requirement.description.some
        THEN WithDescription(request, requirement.description.val)
        ELSE request

\* create_payment_request(config, requirement, resource), Utc::now()
\* reading `now`, the identifiers in `used` having been generated before
CreatePaymentRequest(config, requirement, resource, now, used) ==
    LET expires_at == now + requirement.expires_in
        payment_id == NewV4(used)
        nonce      == NewV4(used \cup {payment_id})
        request    == PaymentRequestNew(requirement.amount, config.token_mint,
                                        config.payment_address, config.network,
                                        expires_at, nonce, payment_id, resource)
    IN  IF requirement.description.some
        THEN WithDescription(request, requirement.description.val)
        ELSE request

(***************************************************************************)
(* The extractor of the actix adapter and the request guard of the rocket  *)
(* adapter.  A request is the record BuildRequest makes; the value of its  *)
(* X-Payment-Authorization header is base64 text, text that is no base64,  *)
(* or bytes that are no visible ASCII.                                     *)
(***************************************************************************)
OpaqueHeader == [b64 |-> FALSE, visible_ascii |-> FALSE]
\* HeaderValue::to_str
HeaderToStr(value) ==
    IF value = OpaqueHeader THEN Err("ToStrError", "failed to convert header to a str")
    ELSE Ok(value)

\* actix: PaymentExtractor::from_request; the error is a PaymentError
PaymentExtractorFromRequest(req) ==
    IF ~req.payment_authorization.some THEN Err("Required", "Payment required")
    ELSE IF ~HeaderToStr(req.payment_authorization.val).ok
    THEN Err("InvalidHeader", "Invalid authorization header")
    ELSE LET parsed == FromHeaderValue(req.payment_authorization.val)
         IN  IF parsed.ok THEN Ok([authorization |-> parsed.val])
             ELSE Err("InvalidAuthorization", parsed.err)

\* actix: ResponseError::error_response for PaymentError
ErrorResponse(payment_error) ==
    IF payment_error.kind = "Required"
    THEN [status |-> PAYMENT_REQUIRED, body |-> ReadableBody(EnvelopeText)]
    ELSE [status |-> 400,
          body   |-> ReadableBody([wellformed |-> TRUE, obj |-> [error |-> payment_error]])]

\* actix: payment_required_response
PaymentRequiredResponse(payment_request_) ==
    [status |-> PAYMENT_REQUIRED, body |-> ReadableBody(PaymentRequestToJson(payment_request_))]

\* rocket: PaymentGuard::from_request; the outcome is Success(guard) or
\* Error((status, X402Error))
PaymentGuardFromRequest(req) ==
    IF ~req.payment_authorization.some
    THEN [outcome |-> "error", status |-> PAYMENT_REQUIRED,
          error |-> X402Error("PaymentRequired", "Payment authorization required")]
    ELSE LET parsed == FromHeaderValue(req.payment_authorization.val)
         IN  IF parsed.ok
             THEN [outcome |-> "success", guard |-> [authorization |-> parsed.val]]
             ELSE [outcome |-> "error", status |-> 400, error |-> parsed.err]

\* rocket: the answer to a request whose guard ended in Outcome::Error is
\* made by the catcher registered for the status; none is registered here,
\* and Rocket's default catcher answers with a description of the status,
\* in JSON when the request prefers JSON, in HTML otherwise
DefaultCatcher(status, accept_json) ==
    [status |-> status,
     body   |-> ReadableBody(IF accept_json
                             THEN [wellformed |-> TRUE, obj |-> [error |-> [code |-> status]]]
                             ELSE GarbageText)]

\* mutant: the response struct is serialized whole, the demand inside it
RespondTo_Enveloped(payment_required_response) ==
    [status |-> PAYMENT_REQUIRED,
     body   |-> ReadableBody([wellformed |-> TRUE,
                   obj |-> [payment_request |->
                       PaymentRequestToJson(payment_required_response.payment_request).obj]])]

\* rocket: the Responder of PaymentRequiredResponse
RespondTo(payment_required_response) ==
    [status |-> PAYMENT_REQUIRED,
     body   |-> ReadableBody(PaymentRequestToJson(payment_required_response.payment_request))]

(***************************************************************************)
(* A handler that takes the extractor, or the guard, itself (the examples  *)
(* at the head of the two lib.rs).                                         *)
(***************************************************************************)
Frameworks == {"actix", "rocket"}

GuardedHandler(framework, req, accept_json) ==
    IF framework = "actix"
    THEN LET auth == PaymentExtractorFromRequest(req)
         IN  IF auth.ok
             THEN [status |-> 200,
                   body   |-> ReadableBody([wellformed |-> TRUE,
                                 obj |-> [message    |-> "Premium content!",
                                          payment_id |-> auth.val.authorization.payment_id]])]
             ELSE ErrorResponse(auth.err)
    ELSE LET auth == PaymentGuardFromRequest(req)
         IN  IF auth.outcome = "success"
             THEN [status |-> 200, body |-> ReadableBody("Premium content!")]
             ELSE DefaultCatcher(auth.status, accept_json)

(***************************************************************************)
(* examples/rust/actix-server and examples/rust/rocket-server: the three   *)
(* priced endpoints.  Their handlers take the extractor, or the guard, as  *)
(* an Option: the framework hands them None whenever it failed.            *)
(***************************************************************************)
OptionOfExtractor(extracted) == IF extracted.ok THEN Some(extracted.val) ELSE None
OptionOfGuard(outcome) == IF outcome.outcome = "success" THEN Some(outcome.guard) ELSE None

Tiers == {"basic", "premium", "enterprise"}
TierPath(tier) ==
    IF tier = "basic" THEN "/basic" ELSE IF tier = "premium" THEN "/premium" ELSE "/enterprise"

\* the PaymentRequirement each handler builds
TierRequirement(tier) ==
    IF tier = "basic"
    THEN RequirementWithDescription(PaymentRequirementNew(Amt001), "Access to basic tier data")
    ELSE IF tier = "premium"
    THEN WithExpiresIn(RequirementWithDescription(PaymentRequirementNew(Amt010),
                                                  "Access to premium tier data"), 600)
    ELSE RequirementWithDescription(PaymentRequirementNew(Amt100),
                                    "Access to enterprise tier data and analytics")

\* the PremiumData a handler answers with
TierData(tier) ==
    [wellformed |-> TRUE,
     obj |-> [message |-> "Access granted", data |-> "data points", tier |-> tier]]

\* mutant: access is granted only to a proof that declares the price
TierHandler_ChecksPrice(framework, config, tier, req, now, used) ==
    LET auth == IF framework = "actix"
                THEN OptionOfExtractor(PaymentExtractorFromRequest(req))
                ELSE OptionOfGuard(PaymentGuardFromRequest(req))
        payment_request_ == CreatePaymentRequest(config, TierRequirement(tier),
                                                 TierPath(tier), now, used)
    IN  IF auth.some /\ auth.val.authorization.actual_amount = TierRequirement(tier).amount
        THEN [response |-> [status |-> 200, body |-> ReadableBody(TierData(tier))],
              issued   |-> None]
        ELSE [response |-> IF framework = "actix"
                           THEN PaymentRequiredResponse(payment_request_)
                           ELSE RespondTo([payment_request |-> payment_request_]),
              issued   |-> Some(payment_request_)]

\* basic_tier, premium_tier, enterprise_tier: the response, and the demand
\* issued, if one was
TierHandler(framework, config, tier, req, now, used) ==
    LET auth == IF framework = "actix"
                THEN OptionOfExtractor(PaymentExtractorFromRequest(req))
                ELSE OptionOfGuard(PaymentGuardFromRequest(req))
        payment_request_ == CreatePaymentRequest(config, TierRequirement(tier),
                                                 TierPath(tier), now, used)
    IN  IF auth.some
        THEN [response |-> [status |-> 200, body |-> ReadableBody(TierData(tier))],
              issued   |-> None]
        ELSE [response |-> IF framework = "actix"
                           THEN PaymentRequiredResponse(payment_request_)
                           ELSE RespondTo([payment_request |-> payment_request_]),
              issued   |-> Some(payment_request_)]

(***************************************************************************)
(* State.                                                                  *)
(***************************************************************************)
VARIABLES
    options,          \* self.options
    pc,               \* where the call is: "start", "send", "parse", "pay", "retry", "done"
    method,           \* the arguments of request()
    body,
    retries,          \* let mut retries
    response,         \* Option: the 402 response held across parse_payment_request
    payment_request,  \* Option: the demand held across create_payment
    authorization,    \* Option: the proof held across the retried request
    result,           \* Option: what the call returned
    events,           \* history: the requests sent, the answers, the create_payment calls
    clock,            \* the latest reading of Utc::now()
    ledger,           \* the transactions that landed on the ledger
    issued,           \* history: the demands a resource server has issued
    suspended         \* Option: the locals of another call on the same client, not running now

vars == <<options, pc, method, body, retries, response, payment_request,
          authorization, result, events, clock, ledger, issued, suspended>>

EvSend(request) == [ev |-> "send", request |-> request]
EvRecv(outcome) == [ev |-> "recv", outcome |-> outcome]
EvCreate(request, outcome) == [ev |-> "create", request |-> request, outcome |-> outcome]

Init ==
    /\ options \in OptionsSet
    /\ pc = "start"
    /\ method = "-"
    /\ body = None
    /\ retries = 0
    /\ response = None
    /\ payment_request = None
    /\ authorization = None
    /\ result = None
    /\ events = <<>>
    /\ clock = 0
    /\ ledger = <<>>
    /\ issued = <<>>
    /\ suspended = None

\* the call returns: the locals are dropped
Return(r) ==
    /\ pc' = "done"
    /\ result' = Some(r)
    /\ response' = None
    /\ payment_request' = None
    /\ authorization' = None

(***************************************************************************)
(* X402AutoClient::get / ::post: entry of request() (lines 58-69).         *)
(***************************************************************************)
Call ==
    /\ pc = "start"
    /\ \E args \in {<<"GET", None>>, <<"POST", Some("payload")>>} :
          /\ method' = args[1]
          /\ body' = args[2]
    /\ retries' = 0
    /\ pc' = "send"
    /\ UNCHANGED <<options, response, payment_request, authorization, result,
                   events, clock, ledger, issued, suspended>>

(***************************************************************************)
(* Top of the loop: the request without proof and the code up to the next  *)
(* .await (lines 73-92, 129).                                              *)
(***************************************************************************)
SendRequestTo(outcomes) ==
    /\ pc = "send"
    /\ \E outcome \in outcomes :
          /\ events' = events \o <<EvSend(BuildRequest(method, body, None)), EvRecv(outcome)>>
          /\ IF ~outcome.ok
             THEN Return(outcome) /\ UNCHANGED retries
             ELSE IF outcome.val.status = PAYMENT_REQUIRED
             THEN IF RetryLimitReached(retries, options.max_retries)
                  THEN Return(MaxRetriesReached) /\ UNCHANGED retries
                  ELSE /\ retries' = retries + 1
                       /\ response' = Some(outcome.val)
                       /\ pc' = "parse"
                       /\ UNCHANGED <<payment_request, authorization, result>>
             ELSE Return(Ok(outcome.val)) /\ UNCHANGED retries
    /\ UNCHANGED <<options, method, body, clock, ledger>>

\* against a resource server that may answer anything
SendRequest == SendRequestTo(SendOutcomes) /\ UNCHANGED <<issued, suspended>>

(***************************************************************************)
(* parse_payment_request(response).await? and check_payment_amount         *)
(* (lines 95-98).                                                          *)
(***************************************************************************)
ParseAndCheck ==
    /\ pc = "parse"
    /\ LET parsed == ParsePaymentRequest(response.val)
           check  == CheckPaymentAmount(options, parsed.val)
       IN  IF ~parsed.ok THEN Return(parsed)
           ELSE IF ~check.ok THEN Return(check)
           ELSE /\ payment_request' = Some(parsed.val)
                /\ response' = None
                /\ pc' = "pay"
                /\ UNCHANGED <<authorization, result>>
    /\ UNCHANGED <<options, method, body, retries, events, clock, ledger, issued, suspended>>

\* mutant: a failed broadcast is swallowed and the payment attempted again
Pay_RetriesBroadcast ==
    /\ pc = "pay"
    /\ \E now \in clock..MaxClock, rpc \in RpcAnswers :
          LET out == CreatePayment(payment_request.val, Payer, now, rpc, Len(ledger) + 1)
          IN  /\ clock' = now
              /\ ledger' = IF out.landed.some THEN Append(ledger, out.landed.val) ELSE ledger
              /\ events' = Append(events, EvCreate(payment_request.val, out.result))
              /\ IF ~out.result.ok /\ out.result.err.kind = "TransactionBroadcast"
                 THEN UNCHANGED <<pc, response, payment_request, authorization, result>>
                 ELSE IF ~out.result.ok
                 THEN Return(out.result)
                 ELSE /\ authorization' = Some(out.result.val)
                      /\ pc' = "retry"
                      /\ UNCHANGED <<response, payment_request, result>>
    /\ UNCHANGED <<options, method, body, retries, issued, suspended>>

(***************************************************************************)
(* self.client.create_payment(&payment_request).await? (line 101).         *)
(***************************************************************************)
PayWith(rpcs) ==
    /\ pc = "pay"
    /\ \E now \in clock..MaxClock, rpc \in rpcs :
          LET out == CreatePayment(payment_request.val, Payer, now, rpc, Len(ledger) + 1)
          IN  /\ clock' = now
              /\ ledger' = IF out.landed.some THEN Append(ledger, out.landed.val) ELSE ledger
              /\ events' = Append(events, EvCreate(payment_request.val, out.result))
              /\ IF ~out.result.ok
                 THEN Return(out.result)
                 ELSE /\ authorization' = Some(out.result.val)
                      /\ pc' = "retry"
                      /\ UNCHANGED <<response, payment_request, result>>
    /\ UNCHANGED <<options, method, body, retries, issued, suspended>>

\* against a ledger RPC that may answer anything
Pay == PayWith(RpcAnswers)

\* mutant: a 402 answer to the retry goes straight to the retry-limit check
\* and its own demand is parsed, with no new request
Retry_LoopsToLimitCheck ==
    /\ pc = "retry"
    /\ \E outcome \in RetryOutcomes :
          /\ events' = events \o <<EvSend(BuildRequest(method, body, authorization)),
                                   EvRecv(outcome)>>
          /\ IF ~outcome.ok
             THEN Return(outcome) /\ UNCHANGED retries
             ELSE IF AfterRetry(outcome.val) = "continue"
             THEN IF RetryLimitReached(retries, options.max_retries)
                  THEN Return(MaxRetriesReached) /\ UNCHANGED retries
                  ELSE /\ retries' = retries + 1
                       /\ response' = Some(outcome.val)
                       /\ pc' = "parse"
                       /\ payment_request' = None
                       /\ authorization' = None
                       /\ UNCHANGED result
             ELSE Return(Ok(outcome.val)) /\ UNCHANGED retries
    /\ UNCHANGED <<options, method, body, clock, ledger, issued, suspended>>

(***************************************************************************)
(* The request with the proof and the code after it (lines 104-125).       *)
(***************************************************************************)
RetryTo(outcomes) ==
    /\ pc = "retry"
    /\ \E outcome \in outcomes :
          /\ events' = events \o <<EvSend(BuildRequest(method, body, authorization)),
                                   EvRecv(outcome)>>
          /\ IF ~outcome.ok
             THEN Return(outcome)
             ELSE IF AfterRetry(outcome.val) = "continue"
             THEN /\ pc' = "send"
                  /\ response' = None
                  /\ payment_request' = None
                  /\ authorization' = None
                  /\ UNCHANGED result
             ELSE Return(Ok(outcome.val))
    /\ UNCHANGED <<options, method, body, retries, clock, ledger>>

\* against a resource server that may answer anything
Retry == RetryTo(RetryOutcomes) /\ UNCHANGED <<issued, suspended>>

Next == Call \/ SendRequest \/ ParseAndCheck \/ Pay \/ Retry

Spec == Init /\ [][Next]_vars

\* every request and every processor call returns: a call that can take a
\* step eventually takes one
LiveSpec == Spec /\ WF_vars(Next)

(***************************************************************************)
(* The payment processor used on its own (X402Client::create_payment and   *)
(* ::verify_payment hand their arguments to it): a sequence of calls on    *)
(* one ledger.  `events` holds the trace of the latest call: the call, the *)
(* RPC calls it made, and what it returned.                                *)
(***************************************************************************)
EvCall(op, args, ledger_len) == [ev |-> "call", op |-> op, args |-> args, ledger_len |-> ledger_len]
EvRpc(rpc_method) == [ev |-> "rpc", method |-> rpc_method]
EvReturn(r) == [ev |-> "return", result |-> r]

CallTrace(op, args, ledger_len, rpc_calls, r) ==
    <<EvCall(op, args, ledger_len)>>
    \o [k \in 1..Len(rpc_calls) |-> EvRpc(rpc_calls[k])]
    \o <<EvReturn(r)>>

\* a transaction of somebody else, which failed on-chain
ForeignTransactions ==
    <<[signature    |-> 1,
       instructions |-> BuildInstructions(TRUE, "other-wallet", "recipient-wallet", 1000000),
       meta         |-> Some([err |-> Some("InstructionError")])]>>

ProcessorAmounts == {Amt025, Amt03, Amt100, Amt0000249, AmtSubMinor, AmtNegative, AmtBad}

ProcessorDemands ==
    {PaymentRequestNew(a, "USDC-mint", "recipient-wallet", "solana-devnet",
                       e, "nonce-p", "pay-p", "/basic") :
        a \in ProcessorAmounts, e \in 0..MaxClock}
    \cup {PaymentRequestNew(Amt025, "not-base58!", "recipient-wallet", "solana-devnet",
                            MaxClock, "nonce-q", "pay-q", "/basic")}

VerifyAmounts == {Amt025, Amt100, Amt0000248, Amt0000249, AmtBad}

\* the text in a proof's signature field: the identifier of a transaction of
\* the ledger, an identifier the ledger does not have, or no identifier
SignatureTexts(ledger_) ==
    {SignatureToString(k) : k \in 1..(Len(ledger_) + 1)}
    \cup {[base58 |-> FALSE, text |-> "not-a-signature"]}

\* the proofs a caller may hand to verify_payment: whatever it declares
SubmittedProofs(ledger_, now) ==
    {PaymentAuthorizationNew("pay-p", a, "recipient-wallet", "USDC-mint",
                             "solana-devnet", sig, Payer, now) :
        a \in VerifyAmounts, sig \in SignatureTexts(ledger_)}

ProcessorInit ==
    /\ options = None
    /\ pc = "idle"
    /\ method = "-"
    /\ body = None
    /\ retries = 0
    /\ response = None
    /\ payment_request = None
    /\ authorization = None
    /\ result = None
    /\ events = <<>>
    /\ clock = 0
    /\ ledger = ForeignTransactions
    /\ issued = <<>>
    /\ suspended = None

\* one call of SolanaPaymentProcessor::create_payment
CreatePaymentCall ==
    /\ pc = "idle"
    /\ Len(ledger) < Len(ForeignTransactions) + MaxPayments
    /\ \E request \in ProcessorDemands, now \in clock..MaxClock, rpc \in RpcAnswers :
          LET out == CreatePayment(request, Payer, now, rpc, Len(ledger) + 1)
          IN  /\ clock' = now
              /\ ledger' = IF out.landed.some THEN Append(ledger, out.landed.val) ELSE ledger
              /\ events' = CallTrace("create_payment", [request |-> request, now |-> now, rpc |-> rpc],
                                     Len(ledger), out.rpc_calls, out.result)
              /\ result' = Some(out.result)
    /\ pc' = "returned"
    /\ UNCHANGED <<options, method, body, retries, response, payment_request, authorization,
                   issued, suspended>>

\* one call of SolanaPaymentProcessor::verify_payment
VerifyPaymentCall ==
    /\ pc = "idle"
    /\ \E proof \in SubmittedProofs(ledger, clock), expected_amount \in VerifyAmounts, reachable \in BOOLEAN :
          LET out == VerifyPayment(proof, expected_amount, ledger, reachable)
          IN  /\ events' = CallTrace("verify_payment",
                                     [authorization |-> proof, expected_amount |-> expected_amount,
                                      reachable |-> reachable],
                                     Len(ledger), out.rpc_calls, out.result)
              /\ result' = Some(out.result)
    /\ pc' = "returned"
    /\ UNCHANGED <<options, method, body, retries, response, payment_request,
                   authorization, clock, ledger, issued, suspended>>

\* the caller has taken the result: the processor awaits its next call
TakeResult ==
    /\ pc = "returned"
    /\ pc' = "idle"
    /\ events' = <<>>
    /\ result' = None
    /\ UNCHANGED <<options, method, body, retries, response, payment_request,
                   authorization, clock, ledger, issued, suspended>>

ProcessorNext == CreatePaymentCall \/ VerifyPaymentCall \/ TakeResult

ProcessorSpec == ProcessorInit /\ [][ProcessorNext]_vars

(***************************************************************************)
(* The protocol model used on its own (models.rs): a demand or a proof is  *)
(* constructed, then asked whether it is expired, or serialized and read   *)
(* back; or a text that was received is decoded.  `events` holds the calls *)
(* made and what each returned.                                            *)
(***************************************************************************)
ModelDemands ==
    LET plain == {PaymentRequestNew(a, "USDC-mint", "recipient-wallet", "solana-devnet",
                                    e, "nonce-m", "pay-m", res) :
                     a \in {Amt025, Amt100}, e \in 0..MaxClock, res \in {"/basic", "/premium"}}
    IN  plain \cup {WithDescription(d, text) : d \in plain, text \in {"", "Basic tier"}}

ModelProofs ==
    LET fresh == {PaymentAuthorizationNew(id, a, "recipient-wallet", "USDC-mint", "solana-devnet",
                                          SignatureToString(1), Payer, t) :
                     id \in {"pay-1", "pay-2"}, a \in {Amt025, Amt100}, t \in 0..MaxClock}
    IN  fresh \cup {[p EXCEPT !.transaction_hash = h] :
                       p \in fresh, h \in {None, Some(SignatureToString(2))}}

\* header values and base64 texts a receiver may be handed
NotBase64 == [b64 |-> FALSE]
ReceivedTexts ==
    {NotBase64, Base64Encode(InvalidUtf8Bytes), Base64Encode(GarbageText),
     Base64Encode(EnvelopeText)}

\* the amount strings parse_amount may be handed
ParseAmountInputs ==
    {Amt010, Amt10, Amt0000001, Amt025, Amt0000248, Amt0000249, AmtBad, AmtNaN}

\* the errors an operation may have returned
ModelErrors == {X402Error(kind, detail) : kind \in X402ErrorKinds, detail \in {"", "test"}}

ModelsInit ==
    /\ options = None
    /\ method = "-"
    /\ body = None
    /\ retries = 0
    /\ response = None
    /\ \/ /\ pc = "new"
          /\ payment_request \in {Some(d) : d \in ModelDemands}
          /\ authorization = None
          /\ result = None
       \/ /\ pc = "new"
          /\ payment_request = None
          /\ authorization \in {Some(p) : p \in ModelProofs}
          /\ result = None
       \/ /\ pc = "received"
          /\ payment_request = None
          /\ authorization = None
          /\ result = None
       \/ /\ pc = "failed"
          /\ payment_request = None
          /\ authorization = None
          /\ result \in {Some([ok |-> FALSE, err |-> e]) : e \in ModelErrors}
       \/ /\ pc = "amount"
          /\ payment_request = None
          /\ authorization = None
          /\ result \in {Some(Ok(amount_str)) : amount_str \in ParseAmountInputs}
    /\ events = <<>>
    /\ clock = 0
    /\ ledger = <<>>
    /\ issued = <<>>
    /\ suspended = None

\* what a call of the protocol model leaves: its trace and its result
ModelCall(op, args, r, next_pc) ==
    /\ events' = events \o <<EvCall(op, args, 0), EvReturn(r)>>
    /\ result' = Some(r)
    /\ pc' = next_pc
    /\ UNCHANGED <<options, method, body, retries, response, payment_request,
                   authorization, ledger, issued, suspended>>

\* PaymentRequest::is_expired, Utc::now() reading `now`
IsExpiredCall ==
    /\ pc = "new" /\ payment_request.some
    /\ \E now \in clock..MaxClock :
          /\ clock' = now
          /\ ModelCall("is_expired", [request |-> payment_request.val, now |-> now],
                       IsExpired(payment_request.val, now), "returned")

ToJsonCall ==
    /\ pc = "new" /\ payment_request.some
    /\ ModelCall("to_json", [request |-> payment_request.val],
                 Ok(PaymentRequestToJson(payment_request.val)), "json")
    /\ UNCHANGED clock

FromJsonCall ==
    /\ pc = "json"
    /\ ModelCall("from_json", [json |-> result.val.val],
                 PaymentRequestFromJson(result.val.val), "returned")
    /\ UNCHANGED clock

ToBase64Call ==
    /\ pc = "new" /\ payment_request.some
    /\ ModelCall("to_base64", [request |-> payment_request.val],
                 Ok(PaymentRequestToBase64(payment_request.val)), "base64")
    /\ UNCHANGED clock

FromBase64Call ==
    /\ pc \in {"base64", "received"}
    /\ \E encoded \in (IF pc = "base64" THEN {result.val.val} ELSE ReceivedTexts) :
          ModelCall("from_base64", [encoded |-> encoded],
                    PaymentRequestFromBase64(encoded), "returned")
    /\ UNCHANGED clock

ToHeaderValueCall ==
    /\ pc = "new" /\ authorization.some
    /\ ModelCall("to_header_value", [authorization |-> authorization.val],
                 Ok(ToHeaderValue(authorization.val)), "header")
    /\ UNCHANGED clock

FromHeaderValueCall ==
    /\ pc \in {"header", "received"}
    /\ \E encoded \in (IF pc = "header" THEN {result.val.val} ELSE ReceivedTexts) :
          ModelCall("from_header_value", [encoded |-> encoded],
                    FromHeaderValue(encoded), "returned")
    /\ UNCHANGED clock

\* X402Error::code on the error an operation returned
CodeCall ==
    /\ pc = "failed"
    /\ ModelCall("code", [error |-> result.val.err], Code(result.val.err), "returned")
    /\ UNCHANGED clock

\* serde_json::to_string(&error)
ErrorToJsonCall ==
    /\ pc = "failed"
    /\ ModelCall("error_to_json", [error |-> result.val.err],
                 Ok(ErrorToJson(result.val.err)), "error_json")
    /\ UNCHANGED clock

\* serde_json::from_str::<X402Error>(&json)
ErrorFromJsonCall ==
    /\ pc = "error_json"
    /\ ModelCall("error_from_json", [json |-> result.val.val],
                 ErrorFromJson(result.val.val), "returned")
    /\ UNCHANGED clock

\* SolanaPaymentProcessor::parse_amount(amount_str)
ParseAmountCall ==
    /\ pc = "amount"
    /\ ModelCall("parse_amount", [amount_str |-> result.val.val],
                 ParseAmount(result.val.val), "returned")
    /\ UNCHANGED clock

ModelsNext ==
    \/ ParseAmountCall
    \/ CodeCall
    \/ ErrorToJsonCall
    \/ ErrorFromJsonCall
    \/ IsExpiredCall
    \/ ToJsonCall
    \/ FromJsonCall
    \/ ToBase64Call
    \/ FromBase64Call
    \/ ToHeaderValueCall
    \/ FromHeaderValueCall

ModelsSpec == ModelsInit /\ [][ModelsNext]_vars

(***************************************************************************)
(* A resource server: its configuration, and the requests it answers one   *)
(* after the other, whatever they carry.  `events` holds the latest call   *)
(* or exchange, `issued` the demands issued so far, by their identifiers.  *)
(***************************************************************************)
MaxIssued == 2

ServerConfigs ==
    {X402Config("recipient-wallet", "USDC-mint", "solana-devnet", None, v) : v \in BOOLEAN}

\* the ledger the server could consult: a failed transaction, one that
\* transferred 0.001, one that transferred 0.01
GuardLedger ==
    ForeignTransactions \o
    <<[signature    |-> 2,
       instructions |-> BuildInstructions(TRUE, Payer, "recipient-wallet", 1000),
       meta         |-> Some([err |-> None])],
      [signature    |-> 3,
       instructions |-> BuildInstructions(TRUE, Payer, "recipient-wallet", 10000),
       meta         |-> Some([err |-> None])]>>

\* the proofs a request may carry: one of a payment of 0.01 that was made,
\* one of a payment of 0.001, one that refers to no transaction, one for a
\* demand that was never issued, one of a payment to another wallet
PresentedProofs ==
    {PaymentAuthorizationNew(Uuid(1), Amt001, "recipient-wallet", "USDC-mint", "solana-devnet",
                             SignatureToString(3), Payer, 0),
     PaymentAuthorizationNew(Uuid(9), Amt001, "recipient-wallet", "USDC-mint", "solana-devnet",
                             SignatureToString(3), Payer, 0),
     PaymentAuthorizationNew(Uuid(1), Amt001, "payer-wallet", "USDC-mint", "solana-devnet",
                             SignatureToString(3), Payer, 0),
     PaymentAuthorizationNew(Uuid(1), Amt0001, "recipient-wallet", "USDC-mint", "solana-devnet",
                             SignatureToString(2), Payer, 0),
     PaymentAuthorizationNew(Uuid(1), Amt001, "recipient-wallet", "USDC-mint", "solana-devnet",
                             SignatureToString(4), Payer, 0)}

\* the values of X-Payment-Authorization a request may carry
PresentedHeaders(framework) ==
    {None}
    \cup {Some(ToHeaderValue(p)) : p \in PresentedProofs}
    \cup {Some(h) : h \in ReceivedTexts}
    \cup (IF framework = "actix" THEN {Some(OpaqueHeader)} ELSE {})

ReceivedRequest(header) ==
    [method |-> "GET", body |-> None, content_type |-> FALSE, payment_authorization |-> header]

\* the prices a handler may ask
Requirements ==
    LET plain == {PaymentRequirementNew(Amt010)} \cup
                 {WithExpiresIn(PaymentRequirementNew(Amt010), seconds) : seconds \in {600, 1, 0, -1}}
    IN  plain \cup {RequirementWithDescription(r, "Premium data access") : r \in plain}

\* what is remembered of a demand issued: its identifiers, and what it was
\* issued for
DemandIds(payment_request_) ==
    [payment_id |-> payment_request_.payment_id,
     nonce      |-> payment_request_.nonce,
     resource   |-> payment_request_.resource,
     amount     |-> payment_request_.max_amount_required]
UsedUuids(issued_) ==
    {issued_[k].payment_id : k \in 1..Len(issued_)} \cup {issued_[k].nonce : k \in 1..Len(issued_)}

EvExchange(route, req, now) == [ev |-> "exchange", route |-> route, request |-> req, now |-> now]

GuardInit ==
    /\ options \in {[framework |-> f, config |-> c] : f \in Frameworks, c \in ServerConfigs}
    /\ pc = "idle"
    /\ method = "-"
    /\ body = None
    /\ retries = 0
    /\ response = None
    /\ payment_request = None
    /\ authorization = None
    /\ result = None
    /\ events = <<>>
    /\ clock = 0
    /\ ledger = GuardLedger
    /\ issued = <<>>
    /\ suspended = None

\* a handler calls create_payment_request for its price and path
CreatePaymentRequestCall ==
    /\ pc = "idle"
    /\ Len(issued) < MaxIssued
    /\ \E requirement \in Requirements, resource \in {"/basic", "/api/premium"}, now \in clock..MaxClock :
          LET payment_request_ == CreatePaymentRequest(options.config, requirement, resource,
                                                      now, UsedUuids(issued))
          IN  /\ events' = <<EvCall("create_payment_request",
                                    [config |-> options.config, requirement |-> requirement,
                                     resource |-> resource, now |-> now], 0)>>
              /\ result' = Some(payment_request_)
              /\ issued' = Append(issued, DemandIds(payment_request_))
              /\ clock' = now
    /\ pc' = "returned"
    /\ UNCHANGED <<options, method, body, retries, response, payment_request,
                   authorization, ledger, suspended>>

\* a request to one of the priced endpoints of the example servers; the
\* clock is read only when a demand is issued
HandleTier ==
    /\ pc = "idle"
    /\ Len(issued) < MaxIssued
    /\ \E tier \in Tiers, header \in PresentedHeaders(options.framework), now \in clock..MaxClock :
          LET out == TierHandler(options.framework, options.config, tier,
                                 ReceivedRequest(header), now, UsedUuids(issued))
          IN  /\ out.issued.some \/ now = clock
              /\ events' = <<EvExchange(TierPath(tier), ReceivedRequest(header),
                                        IF out.issued.some THEN Some(now) ELSE None)>>
              /\ result' = Some(out.response)
              /\ issued' = IF out.issued.some THEN Append(issued, DemandIds(out.issued.val))
                           ELSE issued
              /\ clock' = now
    /\ pc' = "returned"
    /\ UNCHANGED <<options, method, body, retries, response, payment_request,
                   authorization, ledger, suspended>>

\* a request to an endpoint whose handler takes the extractor or the guard
\* itself
HandleGuarded ==
    /\ pc = "idle"
    /\ \E header \in PresentedHeaders(options.framework), accept_json \in BOOLEAN :
          /\ options.framework = "rocket" \/ ~accept_json
          /\ events' = <<EvExchange("/premium-data", ReceivedRequest(header), None)>>
          /\ result' = Some(GuardedHandler(options.framework, ReceivedRequest(header), accept_json))
    /\ pc' = "returned"
    /\ UNCHANGED <<options, method, body, retries, response, payment_request,
                   authorization, clock, ledger, issued, suspended>>

GuardNext == CreatePaymentRequestCall \/ HandleTier \/ HandleGuarded \/ TakeResult

GuardSpec == GuardInit /\ [][GuardNext]_vars

(***************************************************************************)
(* client.rs: the explicit client, whose caller drives the steps.  One     *)
(* get / post / get_with_auth / post_with_auth, and then calls on the      *)
(* response it returned.                                                   *)
(***************************************************************************)
\* what a resource may answer to an explicit request: the answers above, and
\* a 200 whose body happens to be a demand
ExplicitResponses ==
    Responses \cup
    {[status |-> 200, body |-> ReadableBody(PaymentRequestToJson(d))] :
        d \in {x \in ServerDemands : x.payment_id = "pay-1"}}

ExplicitOutcomes ==
    {Err("Network", "HTTP request failed")} \cup {Ok(r) : r \in ExplicitResponses}

\* the proofs a caller may hand to get_with_auth / post_with_auth
ExplicitProofs ==
    {None} \cup {Some(p) : p \in {x \in ModelProofs : x.payment_id = "pay-1" /\ x.actual_amount = Amt025
                                                       /\ x.timestamp = 0}}

\* mutant: a transport failure is answered by sending the request again
ExplicitRequest_Resends ==
    /\ pc = "start"
    /\ \E args \in {<<"GET", None>>, <<"POST", Some("payload")>>},
          proof \in ExplicitProofs, outcome \in ExplicitOutcomes :
          /\ method' = args[1]
          /\ body' = args[2]
          /\ events' = IF outcome.ok
                       THEN <<EvSend(BuildRequest(args[1], args[2], proof)), EvRecv(outcome)>>
                       ELSE <<EvSend(BuildRequest(args[1], args[2], proof)), EvRecv(outcome),
                              EvSend(BuildRequest(args[1], args[2], proof)), EvRecv(outcome)>>
          /\ result' = Some(outcome)
          /\ response' = IF outcome.ok THEN Some(outcome.val) ELSE None
          /\ pc' = "responded"
    /\ UNCHANGED <<options, retries, payment_request, authorization, clock, ledger, issued, suspended>>

\* X402Client::get, ::post, ::get_with_auth, ::post_with_auth (request())
ExplicitRequest ==
    /\ pc = "start"
    /\ \E args \in {<<"GET", None>>, <<"POST", Some("payload")>>},
          proof \in ExplicitProofs, outcome \in ExplicitOutcomes :
          /\ method' = args[1]
          /\ body' = args[2]
          /\ events' = <<EvSend(BuildRequest(args[1], args[2], proof)), EvRecv(outcome)>>
          /\ result' = Some(outcome)
          /\ response' = IF outcome.ok THEN Some(outcome.val) ELSE None
          /\ pc' = "responded"
    /\ UNCHANGED <<options, retries, payment_request, authorization, clock, ledger, issued, suspended>>

\* X402Client::is_payment_required(&response)
IsPaymentRequiredCall ==
    /\ pc = "responded"
    /\ response.some
    /\ events' = Append(events, EvCall("is_payment_required", [response |-> response.val], Len(ledger)))
    /\ result' = Some(Ok(IsPaymentRequired(response.val)))
    /\ pc' = "answered"
    /\ UNCHANGED <<options, method, body, retries, response, payment_request,
                   authorization, clock, ledger, issued, suspended>>

\* X402Client::parse_payment_request(response): the response is consumed
ParsePaymentRequestCall ==
    /\ pc \in {"responded", "answered"}
    /\ response.some
    /\ events' = Append(events, EvCall("parse_payment_request", [response |-> response.val], Len(ledger)))
    /\ result' = Some(ParsePaymentRequest(response.val))
    /\ response' = None
    /\ pc' = "parsed"
    /\ UNCHANGED <<options, method, body, retries, payment_request,
                   authorization, clock, ledger, issued, suspended>>

ClientNext ==
    \/ Call \/ SendRequest \/ ParseAndCheck \/ Pay \/ Retry
    \/ ExplicitRequest \/ IsPaymentRequiredCall \/ ParsePaymentRequestCall

ClientSpec == Init /\ [][ClientNext]_vars

(***************************************************************************)
(* Two calls on one X402AutoClient (`&self`), interleaved at the .await    *)
(* points.  The variables of the call hold the locals of the call that is  *)
(* running; `suspended` holds those of the other call.  The client (its    *)
(* options), the ledger and the clock are common to both.  A call may be   *)
(* dropped at an .await (cancellation).                                    *)
(***************************************************************************)
\* the locals of a call that has not started
FreshLocals ==
    [pc |-> "start", method |-> "-", body |-> None, retries |-> 0, response |-> None,
     payment_request |-> None, authorization |-> None, result |-> None, events |-> <<>>]

\* the locals of the running call
RunningLocals ==
    [pc |-> pc, method |-> method, body |-> body, retries |-> retries, response |-> response,
     payment_request |-> payment_request, authorization |-> authorization,
     result |-> result, events |-> events]

ConcurrentOptions ==
    [max_payment_amount : {Amt05}, auto_retry : {TRUE}, max_retries : 1..MaxRetriesBound]

\* what the resource answers to the requests of the two calls
ConcurrentDemands == {d \in ServerDemands : d.payment_id = "pay-1"}
ConcurrentOutcomes ==
    {Err("Network", "HTTP request failed"),
     Ok([status |-> 200, body |-> ReadableBody(GarbageText)])}
    \cup {Ok([status |-> PAYMENT_REQUIRED, body |-> ReadableBody(PaymentRequestToJson(d))]) :
             d \in ConcurrentDemands}

\* what the ledger RPC answers: the payer is funded, the transaction is
\* confirmed or rejected
ConcurrentRpcAnswers ==
    {r \in RpcAnswers : /\ r.balance.ok
                        /\ r.balance.val = <<"5", "0", "0", "0", "0", "0", "0">>
                        /\ r.account = "found"
                        /\ r.blockhash
                        /\ r.send \in {"confirmed", "rejected"}}

ConcurrentInit ==
    /\ options \in ConcurrentOptions
    /\ pc = "start"
    /\ method = "-"
    /\ body = None
    /\ retries = 0
    /\ response = None
    /\ payment_request = None
    /\ authorization = None
    /\ result = None
    /\ events = <<>>
    /\ clock = 0
    /\ ledger = <<>>
    /\ issued = <<>>
    /\ suspended = Some(FreshLocals)

\* mutant: the retry counter is a field of the client, common to its calls
Switch_SharedCounter ==
    /\ suspended.some
    /\ suspended.val.pc \notin {"done", "cancelled"}
    /\ suspended' = Some(RunningLocals)
    /\ pc' = suspended.val.pc
    /\ method' = suspended.val.method
    /\ body' = suspended.val.body
    /\ response' = suspended.val.response
    /\ payment_request' = suspended.val.payment_request
    /\ authorization' = suspended.val.authorization
    /\ result' = suspended.val.result
    /\ events' = suspended.val.events
    /\ UNCHANGED <<options, retries, clock, ledger, issued>>

\* the running call is suspended at an .await (or has returned) and the
\* other call runs: every local of request(), `retries` among them, belongs
\* to its call
Switch ==
    /\ suspended.some
    /\ suspended.val.pc \notin {"done", "cancelled"}
    /\ suspended' = Some(RunningLocals)
    /\ pc' = suspended.val.pc
    /\ method' = suspended.val.method
    /\ body' = suspended.val.body
    /\ retries' = suspended.val.retries
    /\ response' = suspended.val.response
    /\ payment_request' = suspended.val.payment_request
    /\ authorization' = suspended.val.authorization
    /\ result' = suspended.val.result
    /\ events' = suspended.val.events
    /\ UNCHANGED <<options, clock, ledger, issued>>

\* the future of the running call is dropped at an .await: its locals are
\* gone, and it returns nothing
Cancel ==
    /\ pc \in {"send", "parse", "pay", "retry"}
    /\ pc' = "cancelled"
    /\ response' = None
    /\ payment_request' = None
    /\ authorization' = None
    /\ UNCHANGED <<options, method, body, retries, result, events, clock, ledger,
                   issued, suspended>>

ConcurrentSend == SendRequestTo(ConcurrentOutcomes) /\ UNCHANGED <<issued, suspended>>
ConcurrentPay == PayWith(ConcurrentRpcAnswers)
ConcurrentRetry == RetryTo(ConcurrentOutcomes) /\ UNCHANGED <<issued, suspended>>

ConcurrentNext ==
    \/ Call \/ ConcurrentSend \/ ParseAndCheck \/ ConcurrentPay \/ ConcurrentRetry
    \/ Switch \/ Cancel

ConcurrentSpec == ConcurrentInit /\ [][ConcurrentNext]_vars

(***************************************************************************)
(* The auto-pay client against a resource whose demands carry prices that  *)
(* are no prices: a negative amount, and "NaN", which f64 parsing accepts. *)
(***************************************************************************)
PricedDemands ==
    {PaymentRequestNew(amount, "USDC-mint", "recipient-wallet", "solana-devnet",
                       MaxClock, "nonce-1", "pay-1", "/basic") :
        amount \in {Amt025, AmtNegative, AmtNaN}}

PricedOutcomes ==
    {Ok([status |-> 200, body |-> ReadableBody(GarbageText)])}
    \cup {Ok([status |-> PAYMENT_REQUIRED, body |-> ReadableBody(PaymentRequestToJson(d))]) :
             d \in PricedDemands}

PricedSend == SendRequestTo(PricedOutcomes) /\ UNCHANGED <<issued, suspended>>
PricedRetry == RetryTo(PricedOutcomes) /\ UNCHANGED <<issued, suspended>>

PricedNext == Call \/ PricedSend \/ ParseAndCheck \/ Pay \/ PricedRetry

PricedSpec == Init /\ [][PricedNext]_vars

(***************************************************************************)
(* End to end: one call of the auto-pay client on the /basic endpoint of   *)
(* an example server.  The requests of the call are answered by the        *)
(* endpoint, when the transport delivers them; the server reads its own    *)
(* clock.                                                                  *)
(***************************************************************************)
EndToEndOptions ==
    [max_payment_amount : {Amt05, Amt001, Amt0001},
     auto_retry         : BOOLEAN,
     max_retries        : 0..MaxRetriesBound,
     server             : [framework : Frameworks, config : ServerConfigs]]

\* #[get("/basic")]: the route takes GET; a request no route takes is
\* answered 404
BasicEndpoint(server, req, now, used) ==
    IF req.method = "GET"
    THEN TierHandler(server.framework, server.config, "basic", req, now, used)
    ELSE [response |-> [status |-> 404, body |-> ReadableBody(GarbageText)], issued |-> None]

\* what reqwest's send returns for a request to the endpoint
Delivery(delivered, answer) ==
    IF delivered THEN Ok(answer) ELSE Err("Network", "HTTP request failed")

EndToEndInit ==
    /\ options \in EndToEndOptions
    /\ pc = "start"
    /\ method = "-"
    /\ body = None
    /\ retries = 0
    /\ response = None
    /\ payment_request = None
    /\ authorization = None
    /\ result = None
    /\ events = <<>>
    /\ clock = 0
    /\ ledger = <<>>
    /\ issued = <<>>
    /\ suspended = None

\* the request without proof, sent to the endpoint
SendToServer ==
    \E now \in 0..MaxClock, delivered \in BOOLEAN :
        LET out == BasicEndpoint(options.server, BuildRequest(method, body, None),
                                 now, UsedUuids(issued))
        IN  /\ SendRequestTo({Delivery(delivered, out.response)})
            /\ issued' = IF delivered /\ out.issued.some
                         THEN Append(issued, DemandIds(out.issued.val))
                         ELSE issued
            /\ UNCHANGED suspended

\* the request with the proof, sent to the endpoint
RetryToServer ==
    \E now \in 0..MaxClock, delivered \in BOOLEAN :
        LET out == BasicEndpoint(options.server, BuildRequest(method, body, authorization),
                                 now, UsedUuids(issued))
        IN  /\ RetryTo({Delivery(delivered, out.response)})
            /\ issued' = IF delivered /\ out.issued.some
                         THEN Append(issued, DemandIds(out.issued.val))
                         ELSE issued
            /\ UNCHANGED suspended

EndToEndNext == Call \/ SendToServer \/ ParseAndCheck \/ Pay \/ RetryToServer

EndToEndSpec == EndToEndInit /\ [][EndToEndNext]_vars

(***************************************************************************)
(* Reading the history of a call.                                          *)
(***************************************************************************)
Done == pc = "done"
Returned(r) == Done /\ result = Some(r)
ReturnedError(kind) == Done /\ ~result.val.ok /\ result.val.err.kind = kind

\* a request sent without / with the X-Payment-Authorization header
IsPlainSend(e) == e.ev = "send" /\ ~e.request.payment_authorization.some
IsProofSend(e) == e.ev = "send" /\ e.request.payment_authorization.some
\* a response received, with status 402 / with another status
Is402(e) == e.ev = "recv" /\ e.outcome.ok /\ e.outcome.val.status = 402
IsNot402(e) == e.ev = "recv" /\ e.outcome.ok /\ e.outcome.val.status # 402
IsCreate(e) == e.ev = "create"

PlainSends == {i \in 1..Len(events) : IsPlainSend(events[i])}
ProofSends == {i \in 1..Len(events) : IsProofSend(events[i])}
Creates    == {i \in 1..Len(events) : IsCreate(events[i])}

\* the response at i answers a request without / with a proof
AnswersPlain(i) == i > 1 /\ IsPlainSend(events[i - 1])
AnswersProof(i) == i > 1 /\ IsProofSend(events[i - 1])

\* the demand in the body of a 402, when the body is one
HasDemand(e) ==
    /\ Is402(e)
    /\ e.outcome.val.body.readable
    /\ e.outcome.val.body.text.wellformed
    /\ RequestJsonKeys \subseteq DOMAIN e.outcome.val.body.text.obj
DemandAmount(e) == e.outcome.val.body.text.obj.max_amount_required
DemandId(e) == e.outcome.val.body.text.obj.payment_id

\* what each amount string of the model denotes, in 10^-6 units, written
\* down independently of ParseF64; AmtBad denotes no number
AmountMicros == (Amt025 :> 250000) @@ (Amt05 :> 500000) @@ (Amt100 :> 1000000)
IsNumber(amount_str) == amount_str \in DOMAIN AmountMicros
Micros(amount_str) == AmountMicros[amount_str]

\* both amounts are numbers, and the demand's is the greater / is not
AboveCeiling(amount_str) ==
    /\ IsNumber(options.max_payment_amount) /\ IsNumber(amount_str)
    /\ Micros(amount_str) > Micros(options.max_payment_amount)
WithinCeiling(amount_str) ==
    /\ IsNumber(options.max_payment_amount) /\ IsNumber(amount_str)
    /\ Micros(amount_str) <= Micros(options.max_payment_amount)

\* the 402 at i carries a demand above the ceiling
DearDemandAt(i) == HasDemand(events[i]) /\ AboveCeiling(DemandAmount(events[i]))

\* create_payment is invoked after i for the demand of the 402 at i
PaidLater(i) ==
    \E j \in Creates : j > i /\ events[j].request.payment_id = DemandId(events[i])

(***************************************************************************)
(* C1.  As stated: every 402 response whose demand is above the ceiling    *)
(* ends the call with PaymentRequired, and create_payment is not invoked   *)
(* for that demand.                                                        *)
(***************************************************************************)
C1_AsStated ==
    \A i \in 1..Len(events) :
        DearDemandAt(i) =>
            /\ ~PaidLater(i)
            /\ Done => ReturnedError("PaymentRequired")

\* C1, amended: create_payment is never invoked for a demand above the
\* ceiling; when the 402 that carries it answers a request without proof,
\* it is the last response of the call and the call ends with
\* PaymentRequired; the 402 that answers a proof-bearing request is not
\* examined, and the call goes on.
C1_CeilingEnforced ==
    \A i \in 1..Len(events) :
        DearDemandAt(i) =>
            /\ ~PaidLater(i)
            /\ AnswersPlain(i) =>
                  /\ i = Len(events)
                  /\ pc \in {"parse", "done"}
                  /\ Done => ReturnedError("PaymentRequired")

\* a demand above the ceiling, received after an earlier payment of the same
\* call, has ended the call
C1_Witness ==
    /\ Done
    /\ Creates # {}
    /\ DearDemandAt(Len(events))
    /\ AnswersPlain(Len(events))
    /\ ReturnedError("PaymentRequired")
    /\ result.val.err.detail = "Payment amount exceeds maximum allowed amount"

(***************************************************************************)
(* C2.  Against a resource that answers every request with a 402 whose     *)
(* demand is within the ceiling, and a processor that always succeeds, a   *)
(* call with max_retries = N ends with PaymentRequired("Maximum retry      *)
(* attempts reached") after exactly N create_payment invocations.          *)
(***************************************************************************)
Always402WithinCeiling ==
    \A i \in 1..Len(events) :
        /\ events[i].ev = "recv" =>
              HasDemand(events[i]) /\ WithinCeiling(DemandAmount(events[i]))
        /\ IsCreate(events[i]) => events[i].outcome.ok

C2_RetryBound ==
    (Done /\ Always402WithinCeiling) =>
        /\ result.val = Err("PaymentRequired", "Maximum retry attempts reached")
        /\ Cardinality(Creates) = options.max_retries

C2_Witness ==
    /\ Done /\ Always402WithinCeiling
    /\ options.max_retries = MaxRetriesBound
    /\ Cardinality(Creates) = MaxRetriesBound

(***************************************************************************)
(* C3.  In one call create_payment is invoked at most max_retries times,   *)
(* and each time for the demand of a 402 received just before, in answer   *)
(* to a request of that call.                                              *)
(***************************************************************************)
C3_PaymentsBounded ==
    /\ Cardinality(Creates) <= options.max_retries
    /\ \A j \in Creates :
          /\ j > 1
          /\ HasDemand(events[j - 1])
          /\ events[j].request.payment_id = DemandId(events[j - 1])

C3_Witness ==
    /\ options.max_retries > 1
    /\ Cardinality(Creates) = options.max_retries

(***************************************************************************)
(* C4.  As stated: when the proof-bearing request is answered 402, the     *)
(* retry-limit check is applied to that response, and no request without   *)
(* proof is issued after the rejected retry.                               *)
(***************************************************************************)
C4_AsStated ==
    \A i \in 1..Len(events) :
        (Is402(events[i]) /\ AnswersProof(i) /\ i < Len(events)) =>
            ~IsPlainSend(events[i + 1])

\* C4, amended: when the proof-bearing request is answered 402, that
\* response is dropped and the next step of the client is a new request
\* without proof; the retry-limit check and the parsing apply to the answer
\* to that new request, so every demand paid is the demand of a 402 that
\* answered a request without proof.
C4_RejectedRetryRestartsLoop ==
    /\ \A i \in 1..Len(events) :
          (Is402(events[i]) /\ AnswersProof(i)) =>
              IF i = Len(events)
              THEN pc = "send" /\ response = None /\ payment_request = None
              ELSE IsPlainSend(events[i + 1])
    /\ \A j \in Creates : AnswersPlain(j - 1)

\* a rejected retry was followed by a request without proof, and the demand
\* paid next is another one than the demand of the rejected retry
C4_Witness ==
    \E i \in 1..Len(events) :
        /\ Is402(events[i]) /\ AnswersProof(i)
        /\ i + 3 <= Len(events)
        /\ IsPlainSend(events[i + 1])
        /\ IsCreate(events[i + 3])
        /\ events[i + 3].request.payment_id # DemandId(events[i])

(***************************************************************************)
(* C5.  A response with a status other than 402, to the request without    *)
(* proof or to the retry, is returned as it is, and nothing follows it: no *)
(* request, no payment.                                                    *)
(***************************************************************************)
C5_PassThrough ==
    \A i \in 1..Len(events) :
        IsNot402(events[i]) =>
            /\ i = Len(events)
            /\ Returned(Ok(events[i].outcome.val))

\* a status 500 answered the retry, after a payment, and was returned
C5_Witness ==
    /\ Done
    /\ Creates # {}
    /\ IsNot402(events[Len(events)])
    /\ result.val.ok /\ result.val.val.status = 500

(***************************************************************************)
(* C6.  An error of create_payment is returned by the call unchanged, and  *)
(* nothing follows it: no request, no further create_payment.              *)
(***************************************************************************)
C6_ProcessorErrorPropagates ==
    \A j \in Creates :
        ~events[j].outcome.ok =>
            /\ j = Len(events)
            /\ Returned(events[j].outcome)

\* the second payment of a call failed at broadcast and ended the call
C6_Witness ==
    /\ Done
    /\ Cardinality(Creates) = 2
    /\ IsCreate(events[Len(events)])
    /\ result.val = Err("TransactionBroadcast", "Failed to broadcast transaction")

(***************************************************************************)
(* C7.  As stated: with auto_retry false, the client sends no request      *)
(* that carries a proof.                                                   *)
(***************************************************************************)
C7_AsStated == ~options.auto_retry => ProofSends = {}

(***************************************************************************)
(* C8.  As stated: the total amount paid in one call never exceeds the     *)
(* ceiling.  The amount paid is what the transactions that landed on the   *)
(* ledger transfer.                                                        *)
(***************************************************************************)
TransferAmount(tx) == tx.instructions[Len(tx.instructions)].amount

RECURSIVE TotalTransferred(_)
TotalTransferred(txs) ==
    IF txs = <<>> THEN 0 ELSE TransferAmount(Head(txs)) + TotalTransferred(Tail(txs))

C8_AsStated ==
    IsNumber(options.max_payment_amount) =>
        TotalTransferred(ledger) <= Micros(options.max_payment_amount)

\* C8, amended: each single payment of a call is at most the ceiling, and
\* the total paid in the call is at most max_retries times the ceiling;
\* nothing is paid under a ceiling that is no number.
C8_EachPaymentWithinCeiling ==
    IF IsNumber(options.max_payment_amount)
    THEN /\ \A k \in 1..Len(ledger) :
               TransferAmount(ledger[k]) <= Micros(options.max_payment_amount)
         /\ TotalTransferred(ledger) <=
               options.max_retries * Micros(options.max_payment_amount)
    ELSE ledger = <<>>

\* two payments of one call, each within the ceiling, exceed it together
C8_Witness ==
    /\ IsNumber(options.max_payment_amount)
    /\ Len(ledger) = 2
    /\ TotalTransferred(ledger) > Micros(options.max_payment_amount)

(***************************************************************************)
(* C9.  Every call terminates, in a response or a typed error, after at    *)
(* most max_retries + 1 requests without proof and at most max_retries     *)
(* requests with proof.                                                    *)
(***************************************************************************)
ErrorKinds ==
    {"PaymentRequired", "PaymentExpired", "InsufficientFunds", "PaymentVerification",
     "TransactionBroadcast", "InvalidPaymentRequest", "InvalidPaymentAuthorization",
     "Configuration", "Network", "Blockchain", "Serialization"}

C9_Terminates ==
    /\ <>Done
    /\ [](/\ Cardinality(PlainSends) <= options.max_retries + 1
          /\ Cardinality(ProofSends) <= options.max_retries
          /\ Done => /\ result.some
                     /\ \/ result.val.ok /\ result.val.val \in Responses
                        \/ ~result.val.ok /\ result.val.err.kind \in ErrorKinds)

\* a call that used every request it may send
C9_Witness ==
    /\ Done
    /\ options.max_retries = MaxRetriesBound
    /\ Cardinality(PlainSends) = options.max_retries + 1
    /\ Cardinality(ProofSends) = options.max_retries

(***************************************************************************)
(* C10.  The first request carries no X-Payment-Authorization header;      *)
(* every request that carries one carries the proof that create_payment    *)
(* has just returned for the demand of the 402 received immediately        *)
(* before, with that demand's payment_id; no proof is sent twice.          *)
(***************************************************************************)
HeaderOf(e) == e.request.payment_authorization.val

C10_ProofAnswersLastDemand ==
    /\ events # <<>> => IsPlainSend(events[1])
    /\ \A i \in ProofSends :
          /\ i > 2
          /\ IsCreate(events[i - 1]) /\ events[i - 1].outcome.ok
          /\ HasDemand(events[i - 2])
          /\ events[i - 1].request.payment_id = DemandId(events[i - 2])
          /\ HeaderOf(events[i]).b64
          /\ HeaderOf(events[i]).of.obj.payment_id = DemandId(events[i - 2])
          /\ HeaderOf(events[i]).of.obj.signature = events[i - 1].outcome.val.signature
    /\ \A i, j \in ProofSends : HeaderOf(events[i]) = HeaderOf(events[j]) => i = j

\* two proofs sent in one call, for two different demands
C10_Witness ==
    \E i, j \in ProofSends :
        HeaderOf(events[i]).of.obj.payment_id # HeaderOf(events[j]).of.obj.payment_id

(***************************************************************************)
(* Reading the trace of a processor call.                                  *)
(***************************************************************************)
CreateReturned == pc = "returned" /\ events[1].op = "create_payment"
VerifyReturned == pc = "returned" /\ events[1].op = "verify_payment"
CallArgs == events[1].args
LedgerLenBefore == events[1].ledger_len
CallResult == result.val
CallFailedWith(kind) == ~CallResult.ok /\ CallResult.err.kind = kind
RpcCallsMade == {k \in 1..Len(events) : events[k].ev = "rpc"}
RpcMethodsCalled == {events[k].method : k \in RpcCallsMade}

\* what each amount string of the model denotes, in 10^-8 units, written
\* down independently of ParseF64; AmtBad denotes no number
AmountUnits ==
    (Amt025 :> 25000000) @@ (Amt03 :> 30000000) @@ (Amt05 :> 50000000)
    @@ (Amt100 :> 100000000) @@ (AmtSubMinor :> 190) @@ (Amt0000248 :> 24800)
    @@ (Amt0000249 :> 24900) @@ (AmtNegative :> (0 - 25000000))
Denotes(amount_str) == amount_str \in DOMAIN AmountUnits
\* a number of minor units, in the unit of AmountUnits
MinorUnits(n) == n * 100

\* the positions of the ledger's transactions that a proof refers to
Referenced(proof) ==
    {k \in 1..Len(ledger) : proof.signature = [base58 |-> TRUE, bytes |-> ledger[k].signature]}
Succeeded(tx) == tx.meta = Some([err |-> None])

(***************************************************************************)
(* C11.  As stated: verify_payment returns Ok(true) only when the          *)
(* transaction the proof refers to is on the ledger, succeeded, and        *)
(* transferred at least expected_amount.                                   *)
(***************************************************************************)
C11_AsStated ==
    (VerifyReturned /\ CallResult = Ok(TRUE)) =>
        \E k \in Referenced(CallArgs.authorization) :
            /\ Succeeded(ledger[k])
            /\ Denotes(CallArgs.expected_amount)
            /\ MinorUnits(TransferAmount(ledger[k])) >= AmountUnits[CallArgs.expected_amount]

(***************************************************************************)
(* C12.  As stated: a proof whose actual_amount is numerically below       *)
(* expected_amount is never verified: the call fails, with                 *)
(* PaymentVerification when the signature parses and the transaction is    *)
(* found and succeeded; a proof whose actual_amount is not below is not    *)
(* rejected for its amount.                                                *)
(***************************************************************************)
DeclaredBelowExpected ==
    /\ Denotes(CallArgs.authorization.actual_amount)
    /\ Denotes(CallArgs.expected_amount)
    /\ AmountUnits[CallArgs.authorization.actual_amount] < AmountUnits[CallArgs.expected_amount]

DeclaredAtLeastExpected ==
    /\ Denotes(CallArgs.authorization.actual_amount)
    /\ Denotes(CallArgs.expected_amount)
    /\ AmountUnits[CallArgs.authorization.actual_amount] >= AmountUnits[CallArgs.expected_amount]

\* the proof's transaction is fetched, and it succeeded
TransactionFetchedOk ==
    /\ CallArgs.reachable
    /\ \E k \in Referenced(CallArgs.authorization) : Succeeded(ledger[k])

C12_AsStated ==
    VerifyReturned =>
        /\ DeclaredBelowExpected =>
              /\ ~CallResult.ok
              /\ TransactionFetchedOk => CallFailedWith("PaymentVerification")
        /\ (DeclaredAtLeastExpected /\ TransactionFetchedOk) => CallResult = Ok(TRUE)

(***************************************************************************)
(* C13.  verify_payment fails with InvalidPaymentAuthorization, having     *)
(* made no ledger lookup, when proof.signature does not parse as a         *)
(* transaction reference; when it parses, and the referenced transaction   *)
(* is not on the ledger or did not succeed, it fails with                  *)
(* PaymentVerification, having looked the transaction up.                  *)
(***************************************************************************)
SignatureParses == CallArgs.authorization.signature.base58

C13_SignatureThenLedger ==
    VerifyReturned =>
        /\ ~SignatureParses =>
              /\ CallFailedWith("InvalidPaymentAuthorization")
              /\ RpcCallsMade = {}
        /\ (/\ SignatureParses
            /\ \A k \in Referenced(CallArgs.authorization) : ~Succeeded(ledger[k])) =>
              /\ CallFailedWith("PaymentVerification")
              /\ RpcMethodsCalled = {"get_transaction"}

\* a proof that declares enough and refers to a transaction that failed
\* on-chain was rejected
C13_Witness ==
    /\ VerifyReturned
    /\ SignatureParses /\ CallArgs.reachable
    /\ DeclaredAtLeastExpected
    /\ Referenced(CallArgs.authorization) = {1}
    /\ ~Succeeded(ledger[1])
    /\ CallFailedWith("PaymentVerification")

(***************************************************************************)
(* C14.  As stated: the proof of a successful create_payment has the       *)
(* demand's payment_id, payment_address, asset_address and network, its    *)
(* actual_amount is the demand's max_amount_required, its signature is the *)
(* identifier of the transaction submitted, and that transaction transfers *)
(* exactly the demand's maximum.                                           *)
(***************************************************************************)
ProofMatchesDemand(proof, request) ==
    /\ proof.actual_amount = request.max_amount_required
    /\ proof.payment_id = request.payment_id
    /\ proof.payment_address = request.payment_address
    /\ proof.asset_address = request.asset_address
    /\ proof.network = request.network

C14_AsStated ==
    (CreateReturned /\ CallResult.ok) =>
        /\ ProofMatchesDemand(CallResult.val, CallArgs.request)
        /\ Len(ledger) = LedgerLenBefore + 1
        /\ Referenced(CallResult.val) = {Len(ledger)}
        /\ Denotes(CallArgs.request.max_amount_required)
        /\ MinorUnits(TransferAmount(ledger[Len(ledger)])) =
              AmountUnits[CallArgs.request.max_amount_required]

(***************************************************************************)
(* C15.  create_payment on a demand that is expired when it is called      *)
(* returns PaymentExpired, makes no RPC call (reads nothing from the       *)
(* ledger, submits nothing), and the ledger is left as it was.             *)
(***************************************************************************)
CalledAfterExpiry == CallArgs.now > CallArgs.request.expires_at

C15_ExpiredDemandNotPaid ==
    (CreateReturned /\ CalledAfterExpiry) =>
        /\ CallFailedWith("PaymentExpired")
        /\ RpcCallsMade = {}
        /\ Len(ledger) = LedgerLenBefore

\* an expired demand, which the ledger would have let through, was refused
C15_Witness ==
    /\ CreateReturned /\ CalledAfterExpiry
    /\ CallArgs.request.max_amount_required = Amt025
    /\ CallArgs.request.asset_address = "USDC-mint"
    /\ CallArgs.rpc.balance = Ok(<<"5", "0", "0", "0", "0", "0", "0">>)
    /\ CallArgs.rpc.send = "confirmed"
    /\ CallFailedWith("PaymentExpired")

(***************************************************************************)
(* C16.  As stated: create_payment invoked at an instant now >= expires_at *)
(* (now = expires_at included) fails with PaymentExpired and makes no      *)
(* transfer.                                                               *)
(***************************************************************************)
C16_AsStated ==
    (CreateReturned /\ CallArgs.now >= CallArgs.request.expires_at) =>
        /\ CallFailedWith("PaymentExpired")
        /\ Len(ledger) = LedgerLenBefore

\* C16, amended: a demand is unusable strictly after expires_at.  A
\* create_payment invoked at now > expires_at fails with PaymentExpired and
\* makes no transfer; invoked at now <= expires_at, now = expires_at
\* included, it does not fail with PaymentExpired, and it pays when the
\* other preconditions hold.
C16_UsableUntilExpiryIncluded ==
    CreateReturned =>
        /\ CallArgs.now > CallArgs.request.expires_at =>
              CallFailedWith("PaymentExpired") /\ Len(ledger) = LedgerLenBefore
        /\ CallArgs.now <= CallArgs.request.expires_at =>
              ~CallFailedWith("PaymentExpired")

\* a demand was paid at the very instant it expires
C16_Witness ==
    /\ CreateReturned
    /\ CallArgs.now = CallArgs.request.expires_at
    /\ CallResult.ok
    /\ Len(ledger) = LedgerLenBefore + 1

(***************************************************************************)
(* C18.  create_payment fails with InsufficientFunds exactly when the      *)
(* payer's token balance is read and is less than the demand amount in     *)
(* minor units (an equal balance passes); an RPC failure on the balance or *)
(* on the recipient account is a Network error; none of these submits a    *)
(* transaction.                                                            *)
(***************************************************************************)
\* the minor units parse_amount gives for each amount of the processor's
\* demands, computed in binary64 outside the model
ConvertedMinorUnits ==
    (Amt025 :> 250000) @@ (Amt03 :> 300000) @@ (Amt100 :> 1000000)
    @@ (Amt0000249 :> 248) @@ (AmtSubMinor :> 1) @@ (AmtNegative :> 0)
\* the balances the RPC reports, as numbers
ReportedBalance ==
    (<<"3", "0", "0", "0", "0", "0">> :> 300000)
    @@ (<<"5", "0", "0", "0", "0", "0", "0">> :> 5000000)

BalanceAsked == "get_token_account_balance" \in RpcMethodsCalled
BalanceRead == CallArgs.rpc.balance.ok /\ CallArgs.rpc.balance.val \in DOMAIN ReportedBalance
NothingSubmitted ==
    /\ "send_and_confirm_transaction" \notin RpcMethodsCalled
    /\ Len(ledger) = LedgerLenBefore

C18_InsufficientFundsExactly ==
    CreateReturned =>
        /\ CallFailedWith("InsufficientFunds") <=>
              /\ BalanceAsked /\ BalanceRead
              /\ ReportedBalance[CallArgs.rpc.balance.val] <
                    ConvertedMinorUnits[CallArgs.request.max_amount_required]
        /\ CallFailedWith("InsufficientFunds") => NothingSubmitted
        /\ (BalanceAsked /\ ~CallArgs.rpc.balance.ok) =>
              CallFailedWith("Network") /\ NothingSubmitted
        /\ ("get_account" \in RpcMethodsCalled /\ CallArgs.rpc.account = "unreachable") =>
              CallFailedWith("Network") /\ NothingSubmitted

\* a balance equal to the amount was enough
C18_Witness ==
    /\ CreateReturned
    /\ CallArgs.request.max_amount_required = Amt03
    /\ CallArgs.rpc.balance = Ok(<<"3", "0", "0", "0", "0", "0">>)
    /\ CallResult.ok
    /\ Len(ledger) = LedgerLenBefore + 1

(***************************************************************************)
(* C19.  One create_payment submits at most one transaction; when the      *)
(* broadcast or its confirmation fails it returns TransactionBroadcast and *)
(* submits nothing more; it returns a proof only when the transaction was  *)
(* confirmed.                                                              *)
(***************************************************************************)
Submissions == {k \in RpcCallsMade : events[k].method = "send_and_confirm_transaction"}

C19_OneSubmission ==
    CreateReturned =>
        /\ Cardinality(Submissions) <= 1
        /\ Len(ledger) <= LedgerLenBefore + 1
        /\ (Submissions # {} /\ CallArgs.rpc.send # "confirmed") =>
              CallFailedWith("TransactionBroadcast")
        /\ CallResult.ok =>
              /\ Cardinality(Submissions) = 1
              /\ CallArgs.rpc.send = "confirmed"
              /\ Len(ledger) = LedgerLenBefore + 1
              /\ Succeeded(ledger[Len(ledger)])

\* the transaction landed, its confirmation was not seen: the call failed
\* with TransactionBroadcast, the transfer made
C19_Witness ==
    /\ CreateReturned
    /\ CallArgs.rpc.send = "unconfirmed"
    /\ CallFailedWith("TransactionBroadcast")
    /\ Len(ledger) = LedgerLenBefore + 1

(***************************************************************************)
(* Reading the trace of the protocol model's calls.                        *)
(***************************************************************************)
LastCall == events[Len(events) - 1]
ModelReturned(op) == pc = "returned" /\ LastCall.op = op

(***************************************************************************)
(* C17.  is_expired reports expired if and only if the current time is     *)
(* strictly after expires_at: always when expires_at is in the past, never *)
(* when it is in the future, and not at now = expires_at.                  *)
(***************************************************************************)
C17_ExpiredIffStrictlyAfter ==
    ModelReturned("is_expired") =>
        /\ LastCall.args.request.expires_at < LastCall.args.now => result.val = TRUE
        /\ LastCall.args.request.expires_at > LastCall.args.now => result.val = FALSE
        /\ LastCall.args.request.expires_at = LastCall.args.now => result.val = FALSE

\* a demand asked at the very instant it expires, later than the epoch of
\* the model, was reported not expired
C17_Witness ==
    /\ ModelReturned("is_expired")
    /\ LastCall.args.now = MaxClock
    /\ LastCall.args.request.expires_at = MaxClock
    /\ result.val = FALSE

(***************************************************************************)
(* C20.  For every demand D, with or without a description,                *)
(* from_json(to_json(D)) = D and from_base64(to_base64(D)) = D, all fields *)
(* included.                                                               *)
(***************************************************************************)
DemandRoundTripDone ==
    /\ payment_request.some
    /\ \/ ModelReturned("from_json")
          /\ LastCall.args.json = PaymentRequestToJson(payment_request.val)
       \/ ModelReturned("from_base64")
          /\ LastCall.args.encoded = PaymentRequestToBase64(payment_request.val)

C20_DemandRoundTrip == DemandRoundTripDone => result.val = Ok(payment_request.val)

\* a demand with a description and one with an empty description came back
\* from base64
C20_Witness ==
    /\ DemandRoundTripDone
    /\ ModelReturned("from_base64")
    /\ payment_request.val.description = Some("")
    /\ payment_request.val.expires_at = MaxClock
    /\ result.val.ok

(***************************************************************************)
(* C21.  For every proof P, from_header_value(to_header_value(P)) = P:     *)
(* every field, timestamp and transaction_hash (present or absent)         *)
(* included, is preserved by the header encoding.                          *)
(***************************************************************************)
HeaderRoundTripDone ==
    /\ ModelReturned("from_header_value")
    /\ authorization.some
    /\ LastCall.args.encoded = ToHeaderValue(authorization.val)

C21_ProofRoundTrip == HeaderRoundTripDone => result.val = Ok(authorization.val)

\* a proof without transaction_hash, stamped later than the epoch of the
\* model, came back from its header value
C21_Witness ==
    /\ HeaderRoundTripDone
    /\ authorization.val.transaction_hash = None
    /\ authorization.val.timestamp = MaxClock
    /\ result.val.ok

(***************************************************************************)
(* C22.  As stated: from_header_value and from_base64 fail with one and    *)
(* the same error kind, MalformedHeader, when the input is not valid       *)
(* base64 and when the decoded bytes are not valid UTF-8.                  *)
(***************************************************************************)
DecodeReturned == ModelReturned("from_header_value") \/ ModelReturned("from_base64")

C22_AsStated ==
    (DecodeReturned /\ LastCall.args.encoded \in {NotBase64, Base64Encode(InvalidUtf8Bytes)}) =>
        (~result.val.ok /\ result.val.err.kind = "MalformedHeader")

(***************************************************************************)
(* The upper-snake-case form of a name: every letter in upper case, and an *)
(* underscore before each upper-case letter of the name but the first.     *)
(***************************************************************************)
LowerLetters == <<"a", "b", "c", "d", "e", "f", "g", "h", "i", "j", "k", "l", "m",
                  "n", "o", "p", "q", "r", "s", "t", "u", "v", "w", "x", "y", "z">>
UpperLetters == <<"A", "B", "C", "D", "E", "F", "G", "H", "I", "J", "K", "L", "M",
                  "N", "O", "P", "Q", "R", "S", "T", "U", "V", "W", "X", "Y", "Z">>
IsUpperLetter(c) == \E i \in 1..26 : UpperLetters[i] = c
ToUpperLetter(c) == UpperLetters[CHOOSE i \in 1..26 : LowerLetters[i] = c]

RECURSIVE UpperSnakePrefix(_, _)
UpperSnakePrefix(name, n) ==
    IF n = 0 THEN <<>>
    ELSE UpperSnakePrefix(name, n - 1) \o
         (IF IsUpperLetter(name[n])
          THEN (IF n > 1 THEN <<"_", name[n]>> ELSE <<name[n]>>)
          ELSE <<ToUpperLetter(name[n])>>)
UpperSnakeCase(name) == UpperSnakePrefix(name, Len(name))

\* the spelling of the names of the kinds
KindName ==
    ("PaymentRequired" :> <<"P", "a", "y", "m", "e", "n", "t", "R", "e", "q", "u", "i", "r", "e", "d">>)
    @@ ("PaymentExpired" :> <<"P", "a", "y", "m", "e", "n", "t", "E", "x", "p", "i", "r", "e", "d">>)
    @@ ("InsufficientFunds" :> <<"I", "n", "s", "u", "f", "f", "i", "c", "i", "e", "n", "t", "F", "u", "n", "d", "s">>)
    @@ ("PaymentVerification" :> <<"P", "a", "y", "m", "e", "n", "t", "V", "e", "r", "i", "f", "i", "c", "a", "t", "i", "o", "n">>)
    @@ ("TransactionBroadcast" :> <<"T", "r", "a", "n", "s", "a", "c", "t", "i", "o", "n", "B", "r", "o", "a", "d", "c", "a", "s", "t">>)
    @@ ("InvalidPaymentRequest" :> <<"I", "n", "v", "a", "l", "i", "d", "P", "a", "y", "m", "e", "n", "t", "R", "e", "q", "u", "e", "s", "t">>)
    @@ ("InvalidPaymentAuthorization" :> <<"I", "n", "v", "a", "l", "i", "d", "P", "a", "y", "m", "e", "n", "t", "A", "u", "t", "h", "o", "r", "i", "z", "a", "t", "i", "o", "n">>)
    @@ ("Configuration" :> <<"C", "o", "n", "f", "i", "g", "u", "r", "a", "t", "i", "o", "n">>)
    @@ ("Network" :> <<"N", "e", "t", "w", "o", "r", "k">>)
    @@ ("Blockchain" :> <<"B", "l", "o", "c", "k", "c", "h", "a", "i", "n">>)
    @@ ("Serialization" :> <<"S", "e", "r", "i", "a", "l", "i", "z", "a", "t", "i", "o", "n">>)

\* the kinds whose code is the upper-snake-case form of the name followed
\* by _FAILED, and those where it is followed by _ERROR
FailedSuffixKinds == {"PaymentVerification", "TransactionBroadcast"}
ErrorSuffixKinds == {"Configuration", "Network", "Blockchain", "Serialization"}
SuffixedCode(kind) ==
    UpperSnakeCase(KindName[kind]) \o
    (IF kind \in FailedSuffixKinds THEN <<"_", "F", "A", "I", "L", "E", "D">>
     ELSE IF kind \in ErrorSuffixKinds THEN <<"_", "E", "R", "R", "O", "R">>
     ELSE <<>>)

ErrorRoundTripDone == ModelReturned("error_from_json")
SerializedError == events[1].args.error

(***************************************************************************)
(* C23.  As stated: for every error kind, code() returns the               *)
(* upper-snake-case form of the kind's name.                               *)
(***************************************************************************)
C23_AsStated ==
    ModelReturned("code") => result.val = UpperSnakeCase(KindName[LastCall.args.error.kind])

(***************************************************************************)
(* C23, amended.  code() depends on the kind alone, not on the detail: it  *)
(* is the upper-snake-case form of the kind's name, followed by _FAILED    *)
(* for PaymentVerification and TransactionBroadcast and by _ERROR for      *)
(* Configuration, Network, Blockchain and Serialization; distinct kinds    *)
(* have distinct codes; an error serialized and deserialized has the code  *)
(* it had.                                                                 *)
(***************************************************************************)
C23_CodeOfKind ==
    /\ ModelReturned("code") =>
          /\ result.val = SuffixedCode(LastCall.args.error.kind)
          /\ \A e \in ModelErrors :
                e.kind # LastCall.args.error.kind => Code(e) # result.val
    /\ ErrorRoundTripDone =>
          /\ result.val.ok
          /\ Code(result.val.val) = SuffixedCode(SerializedError.kind)

\* the code of a Blockchain error with a detail was asked, and was the one
\* of a Blockchain error without
C23_Witness ==
    /\ ModelReturned("code")
    /\ LastCall.args.error = X402Error("Blockchain", "test")
    /\ result.val = Code(X402Error("Blockchain", ""))

(***************************************************************************)
(* Reading the latest call or exchange of a resource server.               *)
(***************************************************************************)
DemandBuilt == pc = "returned" /\ events[1].ev = "call" /\ events[1].op = "create_payment_request"
Exchanged == pc = "returned" /\ events[1].ev = "exchange"
BuildArgs == events[1].args
DefaultHorizonRequirements ==
    {PaymentRequirementNew(Amt010),
     RequirementWithDescription(PaymentRequirementNew(Amt010), "Premium data access")}

(***************************************************************************)
(* C24.  create_payment_request(config, requirement, resource) returns a   *)
(* demand with max_amount_required = requirement.amount, payment_address = *)
(* config.payment_address, asset_address = config.token_mint, network =    *)
(* config.network, resource = the path given, description =                *)
(* requirement.description, and expires_at = issuance time +               *)
(* requirement.expires_in seconds, 300 when not overridden; what it        *)
(* returns does not depend on the calls made before.                       *)
(***************************************************************************)
C24_DemandFromConfigAndRequirement ==
    DemandBuilt =>
        /\ result.val.max_amount_required = BuildArgs.requirement.amount
        /\ result.val.payment_address = BuildArgs.config.payment_address
        /\ result.val.asset_address = BuildArgs.config.token_mint
        /\ result.val.network = BuildArgs.config.network
        /\ result.val.resource = BuildArgs.resource
        /\ result.val.description = BuildArgs.requirement.description
        /\ result.val.expires_at = BuildArgs.now + BuildArgs.requirement.expires_in
        /\ BuildArgs.requirement \in DefaultHorizonRequirements =>
              result.val.expires_at = BuildArgs.now + 300

\* a second demand was built, later than the epoch of the model, for a
\* requirement with a description and the default horizon
C24_Witness ==
    /\ DemandBuilt
    /\ Len(issued) = 2
    /\ BuildArgs.now = MaxClock
    /\ BuildArgs.requirement.description.some
    /\ BuildArgs.requirement \in DefaultHorizonRequirements
    /\ result.val.expires_at = MaxClock + 300

(***************************************************************************)
(* C25.  As stated: every demand issued by create_payment_request has      *)
(* expires_at strictly later than its issuance time, for every horizon     *)
(* the caller supplies, 0 and negative values included; a demand just      *)
(* issued is not expired.                                                  *)
(***************************************************************************)
C25_AsStated ==
    DemandBuilt =>
        /\ result.val.expires_at > BuildArgs.now
        /\ ~IsExpired(result.val, BuildArgs.now)

PresentedHeader == events[1].request.payment_authorization
CarriesProof ==
    PresentedHeader.some /\
    PresentedHeader.val \in {ToHeaderValue(p) : p \in PresentedProofs}
ProofCarried == CHOOSE p \in PresentedProofs : ToHeaderValue(p) = PresentedHeader.val
AtTier(tier) == events[1].route = TierPath(tier)
AtPricedEndpoint == \E tier \in Tiers : AtTier(tier)

(***************************************************************************)
(* C27.  As stated: a request to a guarded endpoint whose                  *)
(* X-Payment-Authorization header is present but fails to decode is        *)
(* answered with status 400, never 200 or 402, by a handler that takes the *)
(* extractor or the guard itself and by the endpoints of the example       *)
(* servers, which take it as an Option.                                    *)
(***************************************************************************)
C27_AsStated ==
    (Exchanged /\ PresentedHeader.some /\ ~CarriesProof) => result.val.status = 400

(***************************************************************************)
(* C28.  As stated: every 402 answer to a request without a proof, built   *)
(* by a handler or by the extractor's own error response, has a body that  *)
(* is exactly a serialized demand, which parse_payment_request reads.      *)
(***************************************************************************)
C28_AsStated ==
    (Exchanged /\ ~PresentedHeader.some /\ result.val.status = PAYMENT_REQUIRED) =>
        /\ result.val.body.readable
        /\ result.val.body.text.wellformed
        /\ RequestJsonKeys \subseteq DOMAIN result.val.body.text.obj
        /\ ParsePaymentRequest(result.val).ok

(***************************************************************************)
(* C29.  As stated: when auto_verify is true, a request that carries a     *)
(* proof is granted access only if verify_payment succeeds for that proof  *)
(* and the price of the endpoint.                                          *)
(***************************************************************************)
PriceAsked == TierRequirement(CHOOSE tier \in Tiers : AtTier(tier)).amount

C29_AsStated ==
    (Exchanged /\ AtPricedEndpoint /\ options.config.auto_verify /\ CarriesProof
       /\ result.val.status = 200) =>
        VerifyPayment(ProofCarried, PriceAsked, ledger, TRUE).result = Ok(TRUE)

(***************************************************************************)
(* C30.  End to end on /basic, priced "0.01".  The scenario: a GET by a    *)
(* client whose ceiling is at least 0.01 and that may send a second        *)
(* request (max_retries at least 1), every request delivered, the ledger   *)
(* reachable and the payer funded.  Then the call is exactly five steps:   *)
(* the request without proof; a 402 whose body is a demand for "/basic"    *)
(* with max_amount_required "0.01"; one payment, of 10000 minor units, the *)
(* only transfer on the ledger; the request with a proof whose payment_id  *)
(* is the demand's; a 200, which the call returns.                         *)
(***************************************************************************)
CeilingCoversBasic == options.max_payment_amount \in {Amt001, Amt05}

AllDelivered == \A i \in 1..Len(events) : events[i].ev = "recv" => events[i].outcome.ok

LedgerFailures == {"InsufficientFunds", "Network", "Blockchain", "TransactionBroadcast"}

LedgerServes ==
    \A i \in Creates : events[i].outcome.ok \/ events[i].outcome.err.kind \notin LedgerFailures

BasicScenario ==
    /\ Done
    /\ method = "GET"
    /\ CeilingCoversBasic
    /\ options.max_retries >= 1
    /\ AllDelivered
    /\ LedgerServes

C30_EndToEndBasic ==
    BasicScenario =>
        /\ Len(events) = 5
        /\ IsPlainSend(events[1])
        /\ HasDemand(events[2])
        /\ events[2].outcome.val.body.text.obj.resource = "/basic"
        /\ DemandAmount(events[2]) = Amt001
        /\ IsCreate(events[3])
        /\ events[3].outcome.ok
        /\ events[3].request.payment_id = DemandId(events[2])
        /\ Len(ledger) = 1
        /\ TransferAmount(ledger[1]) = 10000
        /\ IsProofSend(events[4])
        /\ FromHeaderValue(events[4].request.payment_authorization.val).ok
        /\ FromHeaderValue(events[4].request.payment_authorization.val).val.payment_id
               = DemandId(events[2])
        /\ IsNot402(events[5])
        /\ events[5].outcome.val.status = 200
        /\ result = Some(events[5].outcome)

C30_Witness ==
    /\ BasicScenario
    /\ options.max_payment_amount = Amt001
    /\ options.server.config.auto_verify
    /\ Len(ledger) = 1
    /\ result.val.ok
    /\ result.val.val.status = 200

(***************************************************************************)
(* Reading an explicit call, and the bodies of the responses of a call.    *)
(***************************************************************************)
InAutoPayCall == pc \in {"send", "parse", "pay", "retry", "done"}
ExplicitAnswered == pc = "answered"
ExplicitParsed == pc = "parsed"
\* the response handed to the latest explicit is_payment_required /
\* parse_payment_request
HandedResponse == events[Len(events)].args.response

\* a body that was read and is a demand: JSON with every required key
BodyIsDemand(body_) ==
    /\ body_.readable
    /\ body_.text.wellformed
    /\ RequestJsonKeys \subseteq DOMAIN body_.text.obj
\* a body that was read and is no demand
BodyUnparseable(body_) == body_.readable /\ ~BodyIsDemand(body_)

UnparseableAt(i) == Is402(events[i]) /\ BodyUnparseable(events[i].outcome.val.body)

\* the 402 answers to requests without proof received before position i:
\* each was counted by the retry counter
CountedBefore(i) == Cardinality({j \in 1..(i - 1) : Is402(events[j]) /\ AnswersPlain(j)})

\* the explicit half of C31: is_payment_required is status = 402, and
\* parse_payment_request is InvalidPaymentRequest on another status or on a
\* body that is no demand
ExplicitParseContract ==
    /\ ExplicitAnswered => result.val = Ok(HandedResponse.status = 402)
    /\ (ExplicitParsed /\ (HandedResponse.status # 402 \/ BodyUnparseable(HandedResponse.body))) =>
          /\ ~result.val.ok
          /\ result.val.err.kind = "InvalidPaymentRequest"

(***************************************************************************)
(* C31.  As stated: is_payment_required is true iff the status is 402;     *)
(* parse_payment_request fails with InvalidPaymentRequest on another       *)
(* status or on a body that is no demand; and in an auto-pay call every    *)
(* 402 whose body is no demand is the last response of the call, which     *)
(* ends with InvalidPaymentRequest.                                        *)
(***************************************************************************)
C31_AsStated ==
    /\ ExplicitParseContract
    /\ InAutoPayCall =>
          \A i \in 1..Len(events) :
              UnparseableAt(i) =>
                  /\ i = Len(events)
                  /\ Done => ReturnedError("InvalidPaymentRequest")

\* C31, amended: the explicit half as stated; in an auto-pay call a 402
\* whose body is no demand, answering a request without proof, is the last
\* response of the call; the call ends with InvalidPaymentRequest when the
\* retry limit was not reached on its arrival, and with PaymentRequired,
\* the body unparsed, when it was; no payment follows it either way.
C31_ParseFailures ==
    /\ ExplicitParseContract
    /\ InAutoPayCall =>
          \A i \in 1..Len(events) :
              (UnparseableAt(i) /\ AnswersPlain(i)) =>
                  /\ i = Len(events)
                  /\ pc \in {"parse", "done"}
                  /\ Done => IF CountedBefore(i) < options.max_retries
                             THEN ReturnedError("InvalidPaymentRequest")
                             ELSE Returned(MaxRetriesReached)

\* after an earlier payment of the call, a 402 whose body is no demand has
\* ended the call with InvalidPaymentRequest
C31_Witness ==
    /\ Done
    /\ Creates # {}
    /\ UnparseableAt(Len(events))
    /\ ReturnedError("InvalidPaymentRequest")

(***************************************************************************)
(* C32.  A transport failure of a request is returned as a Network error   *)
(* and ends the call: in an auto-pay call the failed exchange is the last  *)
(* step of the call (no request is sent and no payment made after it) and  *)
(* the call returns that error; an explicit get / post sends exactly one   *)
(* request and returns the failure, or the response, of that request.      *)
(***************************************************************************)
InExplicitCall == pc \in {"responded", "answered", "parsed"}
TransportFailedAt(i) == events[i].ev = "recv" /\ ~events[i].outcome.ok
Sends == PlainSends \cup ProofSends

C32_TransportFailureEndsCall ==
    /\ InAutoPayCall =>
          \A i \in 1..Len(events) :
              TransportFailedAt(i) =>
                  /\ i = Len(events)
                  /\ Done
                  /\ result = Some(events[i].outcome)
                  /\ result.val.err.kind = "Network"
    /\ InExplicitCall =>
          /\ Cardinality(Sends) = 1
          /\ TransportFailedAt(2) =>
                /\ events[2].outcome.err.kind = "Network"
                /\ pc = "responded"
                /\ result = Some(events[2].outcome)

\* the proof-bearing request of a call that has paid failed in transport
C32_Witness ==
    /\ Done
    /\ Creates # {}
    /\ TransportFailedAt(Len(events))
    /\ AnswersProof(Len(events))
    /\ ReturnedError("Network")

(***************************************************************************)
(* Reading the two calls of one client.  SoloResult replays the answers a  *)
(* call was given (the responses to its requests, the results of its       *)
(* create_payment calls), counting its 402s from zero: what the call       *)
(* returns when it runs alone against these answers.                       *)
(***************************************************************************)
CallsOfClient == {RunningLocals} \cup (IF suspended.some THEN {suspended.val} ELSE {})

CreatesIn(evs) == {i \in 1..Len(evs) : evs[i].ev = "create"}
Plain402sIn(evs) ==
    {i \in 2..Len(evs) : Is402(evs[i]) /\ IsPlainSend(evs[i - 1])}

RECURSIVE SoloResult(_, _, _, _)
SoloResult(opts, evs, i, n) ==
    IF i + 1 > Len(evs) THEN None
    ELSE LET answer == evs[i + 1].outcome
         IN  IF ~answer.ok THEN Some(answer)
             ELSE IF answer.val.status # 402 THEN Some(Ok(answer.val))
             ELSE IF n >= opts.max_retries THEN Some(MaxRetriesReached)
             ELSE IF ~HasDemand(evs[i + 1])
             THEN Some(ParsePaymentRequest(answer.val))
             ELSE IF ~WithinCeiling(DemandAmount(evs[i + 1]))
             THEN Some(CheckPaymentAmount(opts, ParsePaymentRequest(answer.val).val))
             ELSE IF i + 2 > Len(evs) THEN None
             ELSE IF ~evs[i + 2].outcome.ok THEN Some(evs[i + 2].outcome)
             ELSE IF i + 4 > Len(evs) THEN None
             ELSE IF ~evs[i + 4].outcome.ok THEN Some(evs[i + 4].outcome)
             ELSE IF evs[i + 4].outcome.val.status = 402
             THEN SoloResult(opts, evs, i + 5, n + 1)
             ELSE Some(Ok(evs[i + 4].outcome.val))

\* the steps of a call use the call's own values: it pays the demand of the
\* 402 it received, and presents the proof of the payment it made
RECURSIVE OwnValues(_, _)
OwnValues(evs, i) ==
    IF i > Len(evs) THEN TRUE
    ELSE /\ IsPlainSend(evs[i])
         /\ evs[i].request.method = evs[1].request.method
         /\ i + 1 <= Len(evs)
         /\ evs[i + 1].ev = "recv"
         /\ i + 2 <= Len(evs) =>
               /\ IsCreate(evs[i + 2])
               /\ HasDemand(evs[i + 1])
               /\ evs[i + 2].request.payment_id = DemandId(evs[i + 1])
               /\ i + 3 <= Len(evs) =>
                     /\ evs[i + 2].outcome.ok
                     /\ IsProofSend(evs[i + 3])
                     /\ evs[i + 3].request.method = evs[1].request.method
                     /\ evs[i + 3].request.payment_authorization
                            = Some(ToHeaderValue(evs[i + 2].outcome.val))
                     /\ i + 4 <= Len(evs)
                     /\ evs[i + 4].ev = "recv"
                     /\ i + 5 <= Len(evs) => (Is402(evs[i + 4]) /\ OwnValues(evs, i + 5))

(***************************************************************************)
(* C33.  Two calls on one client, under every interleaving and with        *)
(* cancellations: each call makes at most max_retries payments; the retry  *)
(* counter of a call that is under way is the number of 402s that call has *)
(* been answered to its requests without proof (zero when it starts,       *)
(* whatever the other call did); each call uses its own demand and proof;  *)
(* and a call that returned has returned what it returns running alone     *)
(* against the answers it was given.                                       *)
(***************************************************************************)
C33_CallsIndependent ==
    \A c \in CallsOfClient :
        /\ Cardinality(CreatesIn(c.events)) <= options.max_retries
        /\ c.pc \in {"send", "parse", "pay", "retry"} =>
              c.retries = Cardinality(Plain402sIn(c.events))
        /\ OwnValues(c.events, 1)
        /\ c.pc = "done" => c.result = SoloResult(options, c.events, 1, 0)
        /\ c.pc # "done" => c.result = None

\* both calls have returned; the running call paid first, the other call
\* then ran from its start to its return, paying too, and the running call
\* went on after it
C33_Witness ==
    /\ suspended.some
    /\ pc = "done"
    /\ suspended.val.pc = "done"
    /\ Len(events) >= 5
    /\ events[3].outcome.ok
    /\ events[3].outcome.val.signature = SignatureToString(1)
    /\ \E i \in CreatesIn(suspended.val.events) : suspended.val.events[i].outcome.ok
    /\ Len(ledger) >= 2

(***************************************************************************)
(* C34.  As stated: parse_amount returns exactly value x 10^6 for every    *)
(* non-negative decimal string with at most 6 fractional digits, and       *)
(* rejects with InvalidPaymentRequest every input that is not a number.    *)
(* DecimalMicros is what each such string of the model denotes, in minor   *)
(* units, written down independently of ParseF64.                          *)
(***************************************************************************)
DecimalMicros ==
    (Amt010 :> 100000) @@ (Amt10 :> 1000000) @@ (Amt0000001 :> 1) @@ (Amt025 :> 250000)
    @@ (Amt0000248 :> 248) @@ (Amt0000249 :> 249)
NotNumbers == {AmtBad, AmtNaN}

C34_AsStated ==
    ModelReturned("parse_amount") =>
        /\ LastCall.args.amount_str \in DOMAIN DecimalMicros =>
              result.val = Ok(DecimalMicros[LastCall.args.amount_str])
        /\ LastCall.args.amount_str \in NotNumbers =>
              /\ ~result.val.ok
              /\ result.val.err.kind = "InvalidPaymentRequest"

(***************************************************************************)
(* C35.  The ceiling check rejects exactly the demands strictly above the  *)
(* ceiling.  For a demand at or below the ceiling, received in answer to   *)
(* a request without proof while the retry limit is not reached, the next  *)
(* step of the call is create_payment for that demand.  A call that ended  *)
(* with the error of the ceiling check ended on a demand strictly above    *)
(* the ceiling, and the error carries the two amounts: the demand's and    *)
(* the ceiling's.                                                          *)
(***************************************************************************)
\* the 402 at i is one the call examines: it answers a request without
\* proof and the retry limit was not reached
ExaminedAt(i) == HasDemand(events[i]) /\ AnswersPlain(i) /\ CountedBefore(i) < options.max_retries

\* the value of an amount string as check_payment_amount holds it
AsF64(amount_str) == F64Finite(Micros(amount_str) * Pow10(FracDigits - USDC_DECIMALS))

IsCeilingError(r) == ~r.ok /\ "required_amount" \in DOMAIN r.err

C35_CeilingCheck ==
    /\ \A i \in 1..Len(events) :
          (ExaminedAt(i) /\ WithinCeiling(DemandAmount(events[i]))) =>
              /\ i = Len(events) =>
                    /\ pc \in {"parse", "pay"}
                    /\ pc = "pay" => payment_request.val.payment_id = DemandId(events[i])
              /\ i < Len(events) =>
                    /\ IsCreate(events[i + 1])
                    /\ events[i + 1].request.payment_id = DemandId(events[i])
    /\ (Done /\ IsCeilingError(result.val)) =>
          /\ ExaminedAt(Len(events))
          /\ AboveCeiling(DemandAmount(events[Len(events)]))
          /\ result.val.err.kind = "PaymentRequired"
          /\ result.val.err.required_amount = AsF64(DemandAmount(events[Len(events)]))
          /\ result.val.err.max_amount = AsF64(options.max_payment_amount)
    /\ (Done /\ ExaminedAt(Len(events)) /\ AboveCeiling(DemandAmount(events[Len(events)]))) =>
          IsCeilingError(result.val)

\* a demand equal to the ceiling has been paid
C35_Witness ==
    \E i \in 1..Len(events) :
        /\ ExaminedAt(i)
        /\ DemandAmount(events[i]) = options.max_payment_amount
        /\ i < Len(events)
        /\ IsCreate(events[i + 1])
        /\ events[i + 1].outcome.ok

(***************************************************************************)
(* C36.  Within one call every payment is at most the ceiling, at most     *)
(* max_retries payments are made, and so the total paid is at most         *)
(* max_retries times the ceiling; and the payments a call has made stay    *)
(* made, whatever the call goes on to do or return: the transaction of     *)
(* every proof the call was given is on the ledger, transferring the       *)
(* amount of the demand it paid.                                           *)
(***************************************************************************)
\* the transactions on the ledger with the signature of a proof
LandedFor(proof) ==
    {k \in 1..Len(ledger) : SignatureToString(ledger[k].signature) = proof.signature}

C36_PaymentsBoundedAndKept ==
    /\ Len(ledger) <= options.max_retries
    /\ IsNumber(options.max_payment_amount) =>
          /\ \A k \in 1..Len(ledger) :
                TransferAmount(ledger[k]) <= Micros(options.max_payment_amount)
          /\ TotalTransferred(ledger) <= options.max_retries * Micros(options.max_payment_amount)
    /\ \A i \in Creates :
          events[i].outcome.ok =>
              \E k \in LandedFor(events[i].outcome.val) :
                  TransferAmount(ledger[k]) = Micros(events[i].request.max_amount_required)

\* a call that paid as often as it may has ended in the retry-limit error,
\* and what it paid is on the ledger
C36_Witness ==
    /\ Returned(MaxRetriesReached)
    /\ options.max_retries >= 1
    /\ Len(ledger) = options.max_retries
    /\ TotalTransferred(ledger) > 0

(***************************************************************************)
(* C37.  The transaction submitted by create_payment holds exactly one     *)
(* transfer, as its last instruction, and before it an instruction that    *)
(* creates the recipient's token account, funded by the payer, if and only *)
(* if get_account answered that the account was not found; nothing else.   *)
(***************************************************************************)
SubmittedTransaction == ledger[Len(ledger)]
TransfersOf(tx) == {k \in 1..Len(tx.instructions) : tx.instructions[k].op = "transfer_checked"}
AccountCreationsOf(tx) ==
    {k \in 1..Len(tx.instructions) : tx.instructions[k].op = "create_associated_token_account"}

C37_InstructionsOfPayment ==
    (CreateReturned /\ Len(ledger) = LedgerLenBefore + 1) =>
        /\ Cardinality(TransfersOf(SubmittedTransaction)) = 1
        /\ TransfersOf(SubmittedTransaction) = {Len(SubmittedTransaction.instructions)}
        /\ IF CallArgs.rpc.account = "AccountNotFound"
           THEN /\ Len(SubmittedTransaction.instructions) = 2
                /\ AccountCreationsOf(SubmittedTransaction) = {1}
                /\ SubmittedTransaction.instructions[1].funder = Payer
                /\ SubmittedTransaction.instructions[1].owner = CallArgs.request.payment_address
           ELSE /\ CallArgs.rpc.account = "found"
                /\ Len(SubmittedTransaction.instructions) = 1

\* a payment to a recipient whose token account did not exist
C37_Witness ==
    /\ CreateReturned
    /\ CallResult.ok
    /\ CallArgs.rpc.account = "AccountNotFound"
    /\ Len(ledger) = LedgerLenBefore + 1
    /\ Len(SubmittedTransaction.instructions) = 2

(***************************************************************************)
(* C38.  Access is granted to a request exactly when its                   *)
(* X-Payment-Authorization header decodes to a proof: at every endpoint,   *)
(* whatever its price, whatever the proof says (payment_id, amount,        *)
(* recipient, transaction) and whatever demands were issued or requests    *)
(* answered before; so a proof is accepted each time it is presented, and  *)
(* at each endpoint it is presented to.                                    *)
(***************************************************************************)
Granted == result.val.status = 200

NoPrices == {AmtNegative, AmtNaN}
NoPriceAt(i) == HasDemand(events[i]) /\ DemandAmount(events[i]) \in NoPrices

C39_AsStated ==
    /\ \A i \in Creates : events[i].request.max_amount_required \notin NoPrices
    /\ \A i \in 1..Len(events) :
          (NoPriceAt(i) /\ AnswersPlain(i)) =>
              /\ i = Len(events)
              /\ Done => ~result.val.ok

=============================================================================
